---- MODULE Spec2Model ----
(***************************************************************************)
(* Daily snapshot pipeline of the backend (apps/backend/src/snapshot):     *)
(* SnapshotRepository (the SQL aggregation and the upsert),                *)
(* SnapshotGenerator (generateForDate, backfill) and the table             *)
(* daily_snapshots with its unique index.                                  *)
(*                                                                         *)
(* Representation.  A nullable value is a tuple: Null is <<>>, a present   *)
(* string or integer x is <<x>>.  A SQL numeric / JS number is the exact   *)
(* rational <<n, d>> in lowest terms (d > 0); NaN is <<0, 0>>.  A Date is  *)
(* an integer number of ticks since the epoch, TicksPerDay ticks to the    *)
(* UTC calendar day.                                                       *)
(***************************************************************************)
EXTENDS Integers, Sequences, FiniteSets, Bags, TLC

\* ------------------------------------------------------------------ bounds
TicksPerDay == 2      \* resolution of an instant inside one UTC day
NumDays     == 3      \* calendar days 0 .. NumDays-1 are used as inputs
MaxSignals  == 2      \* rows of sentiment_signals
MaxCalls    == 2      \* entry points one caller invokes
MaxConcCalls == 1     \* entry points each of two concurrent callers invokes
MaxRuns     == 1      \* entry points invoked where single runs are examined

Null      == <<>>
Some(x)   == <<x>>
NaN       == <<0, 0>>

Assets    == {"BTC", "ETH"}
Scores    == {1, 3}
Volumes   == {0, 2}
Times     == 0 .. (NumDays * TicksPerDay - 1)
SignalTimes == 0 .. TicksPerDay          \* days 0 and 1 carry signals

\* A row of the raw table sentiment_signals.
Signal == [asset_symbol : {Some(a) : a \in Assets} \cup {Null},
           sentiment_score : Scores,
           volume : {Some(v) : v \in Volumes} \cup {Null},
           signal_timestamp : SignalTimes]

\* The raw rows used where the job is exercised: both assets, both scores,
\* one volume, the first instant of days 0 and 1.
JobSignal == {s \in Signal : /\ s.asset_symbol # Null
                             /\ s.volume = Some(2)
                             /\ s.signal_timestamp % TicksPerDay = 0}

\* ------------------------------------------------------------ arithmetic
Abs(x) == IF x < 0 THEN -x ELSE x

RECURSIVE Gcd(_, _)
Gcd(a, b) == IF b = 0 THEN a ELSE Gcd(b, a % b)

\* The exact quotient n/d (d > 0) as a number.
Rat(n, d) == LET g == Gcd(Abs(n), d) IN <<n \div g, d \div g>>

RECURSIVE SumFn(_, _)
SumFn(f, S) == IF S = {} THEN 0
               ELSE LET x == CHOOSE y \in S : TRUE IN f[x] + SumFn(f, S \ {x})

SetMin(S) == CHOOSE x \in S : \A y \in S : x <= y
SetMax(S) == CHOOSE x \in S : \A y \in S : x >= y

RECURSIVE Perms(_)
Perms(S) == IF S = {} THEN {<<>>}
            ELSE UNION {{<<x>> \o q : q \in Perms(S \ {x})} : x \in S}

\* ------------------------------------------------------------------ dates
\* Mutant: the instant is kept as it is, time of day included.
toUtcMidnight_Keep(d) == d
\* new Date(Date.UTC(year, month, day of d in UTC))
toUtcMidnight(d) == (d \div TicksPerDay) * TicksPerDay
toDateString(d)  == d \div TicksPerDay
\* DATE(signal_timestamp AT TIME ZONE 'UTC')
SqlDate(ts)      == ts \div TicksPerDay
\* Mutant: the cursor stays on its day.
NextUtcDate_Stay(d) == d
\* Mutant: the cursor advances two days at a time.
NextUtcDate_Skip(d) == d + 2 * TicksPerDay
\* cursor.setUTCDate(cursor.getUTCDate() + 1)
NextUtcDate(d)   == d + TicksPerDay

\* The UTC calendar of a Date, by day number since 1970-01-01 (day 0), as
\* Date.prototype.getUTCDate / setUTCDate compute it.
IsLeapYear(y) == (y % 4 = 0 /\ y % 100 # 0) \/ y % 400 = 0
\* Day number of 1 January of year y.
DayFromYear(y) ==
  365 * (y - 1970) + ((y - 1969) \div 4) - ((y - 1901) \div 100)
    + ((y - 1601) \div 400)
DaysInMonth(y, m) ==
  <<31, IF IsLeapYear(y) THEN 29 ELSE 28, 31, 30, 31, 30, 31, 31, 30, 31, 30, 31>>[m + 1]
RECURSIVE MonthStart(_, _)
\* Day number of the first day of month m (0 .. 11) of year y.
MonthStart(y, m) ==
  IF m = 0 THEN DayFromYear(y) ELSE MonthStart(y, m - 1) + DaysInMonth(y, m - 1)
CalendarYears == 1969 .. 1974
YearFromDay(day) ==
  CHOOSE y \in CalendarYears : DayFromYear(y) <= day /\ day < DayFromYear(y + 1)
MonthFromDay(day) ==
  LET y == YearFromDay(day) IN
  CHOOSE m \in 0 .. 11 : /\ MonthStart(y, m) <= day
                         /\ day < MonthStart(y, m) + DaysInMonth(y, m)
\* d.getUTCDate(): the day of the month, 1 .. 31
getUTCDate(d) ==
  LET day == d \div TicksPerDay IN
  day - MonthStart(YearFromDay(day), MonthFromDay(day)) + 1
\* Mutant: a day of the month below 1 is clamped to 1.
setUTCDate_Clamp(d, dt) ==
  LET day == d \div TicksPerDay
      first == MonthStart(YearFromDay(day), MonthFromDay(day))
  IN (first + (IF dt < 1 THEN 1 ELSE dt) - 1) * TicksPerDay + (d % TicksPerDay)
\* d.setUTCDate(dt): day dt of d's month, counted on from the first of the
\* month (0 is the last day of the month before), time of day kept.
setUTCDate(d, dt) ==
  LET day == d \div TicksPerDay
      first == MonthStart(YearFromDay(day), MonthFromDay(day))
  IN (first + dt - 1) * TicksPerDay + (d % TicksPerDay)

\* ------------------------------------------------------------ aggregation
\* The rows of the bag `sig` that satisfy the WHERE clause of the per-asset
\* SELECT with GROUP BY value `sym`, as a bag.
AssetGroup(sig, dateStr, sym) ==
  LET S == {s \in BagToSet(sig) : /\ SqlDate(s.signal_timestamp) = dateStr
                                  /\ s.asset_symbol = sym}
  IN [s \in S |-> sig[s]]

\* The rows of the global SELECT: every row of the day, NULL symbols included.
GlobalGroup(sig, dateStr) ==
  LET S == {s \in BagToSet(sig) : SqlDate(s.signal_timestamp) = dateStr}
  IN [s \in S |-> sig[s]]

\* COUNT(*)
SqlCount(G) == SumFn(G, DOMAIN G)
\* SUM(sentiment_score): NULL over no rows
SumScore(G) == SumFn([s \in DOMAIN G |-> G[s] * s.sentiment_score], DOMAIN G)
\* rows whose volume is not NULL (SUM skips NULL inputs)
WithVolume(G) == {s \in DOMAIN G : s.volume # Null}
SumVolume(G) == SumFn([s \in WithVolume(G) |-> G[s] * s.volume[1]], WithVolume(G))
SumScoreVolume(G) ==
  SumFn([s \in WithVolume(G) |-> G[s] * s.sentiment_score * s.volume[1]],
        WithVolume(G))

SqlAvg(G) == IF DOMAIN G = {} THEN Null ELSE Rat(SumScore(G), SqlCount(G))
SqlMin(G) == IF DOMAIN G = {} THEN Null
             ELSE Rat(SetMin({s.sentiment_score : s \in DOMAIN G}), 1)
SqlMax(G) == IF DOMAIN G = {} THEN Null
             ELSE Rat(SetMax({s.sentiment_score : s \in DOMAIN G}), 1)
SqlTotalVolume(G) == IF WithVolume(G) = {} THEN Null ELSE Rat(SumVolume(G), 1)
\* Mutant: the plain average in place of the volume-weighted one.
SqlWeighted_Unweighted(G) ==
  IF WithVolume(G) # {} /\ SumVolume(G) > 0
  THEN Rat(SumScore(G), SqlCount(G))
  ELSE Null

\* CASE WHEN SUM(volume) > 0 THEN SUM(score*volume)/SUM(volume) ELSE NULL END
SqlWeighted(G) ==
  IF WithVolume(G) # {} /\ SumVolume(G) > 0
  THEN Rat(SumScoreVolume(G), SumVolume(G))
  ELSE Null

\* One result row of the query (AssetAggregationRow): the ::text columns.
SelectRow(sym, G) ==
  [asset_symbol |-> sym,
   avg_sentiment |-> SqlAvg(G),
   min_sentiment |-> SqlMin(G),
   max_sentiment |-> SqlMax(G),
   signal_count |-> SqlCount(G),
   total_volume |-> SqlTotalVolume(G),
   volume_weighted_sentiment |-> SqlWeighted(G)]

\* Mutant: the per-asset SELECT without "AND asset_symbol IS NOT NULL".
PerAssetRows_NullGroup(sig, dateStr) ==
  {SelectRow(sym, AssetGroup(sig, dateStr, sym)) :
     sym \in {s.asset_symbol : s \in {t \in BagToSet(sig) :
                 SqlDate(t.signal_timestamp) = dateStr}}}

\* GROUP BY asset_symbol over the rows with asset_symbol IS NOT NULL: one row
\* per symbol that occurs, none when no row qualifies.
PerAssetRows(sig, dateStr) ==
  {SelectRow(sym, AssetGroup(sig, dateStr, sym)) :
     sym \in {s.asset_symbol : s \in {t \in BagToSet(sig) :
                 /\ SqlDate(t.signal_timestamp) = dateStr
                 /\ t.asset_symbol # Null}}}

\* The global SELECT has aggregates and no GROUP BY: it yields exactly one
\* row, also over zero input rows (COUNT 0, the other aggregates NULL).
GlobalRows(sig, dateStr) == {SelectRow(Null, GlobalGroup(sig, dateStr))}

\* parseFloat(null) is NaN; nullableFloat keeps null.
parseFloat(v) == IF v = Null THEN NaN ELSE v
nullableFloat(v) == IF v = Null THEN Null ELSE parseFloat(v)

parseRow(row) ==
  [assetSymbol |-> row.asset_symbol,
   avgSentiment |-> parseFloat(row.avg_sentiment),
   minSentiment |-> nullableFloat(row.min_sentiment),
   maxSentiment |-> nullableFloat(row.max_sentiment),
   signalCount |-> row.signal_count,
   totalVolume |-> nullableFloat(row.total_volume),
   volumeWeightedSentiment |-> nullableFloat(row.volume_weighted_sentiment)]

\* The set of rows aggregateForDate returns (UNION ALL of the two SELECTs).
AggregateRows(sig, utcDate) ==
  {parseRow(r) : r \in PerAssetRows(sig, toDateString(utcDate))
                       \cup GlobalRows(sig, toDateString(utcDate))}

\* The arrays aggregateForDate may return: the query has no ORDER BY, so
\* every order of the rows is a possible result.
aggregateForDate(sig, utcDate) == Perms(AggregateRows(sig, utcDate))


\* ------------------------------------------------------------------ state
Procs == {1, 2}       \* callers of the job: 1 alone, or 1 and 2 concurrently

VARIABLES
  signals,       \* table sentiment_signals: a bag of Signal rows
  store,         \* table daily_snapshots: a set of rows, each with its own id
  clock,         \* the database's now(), one tick per write statement
  pc,            \* per caller: idle / gen_aggregate / gen_upsert / returned / threw
  op,            \* per caller: the entry point in progress
  args,          \* per caller: the dates the entry point was called with
  utcDate,       \* per caller: generateForDate's utcDate
  aggregations,  \* per caller: generateForDate's aggregations
  cursor,        \* per caller: backfill's cursor
  end,           \* per caller: backfill's end
  results,       \* per caller: the results returned so far by generateForDate
  trace,         \* per caller: repository calls made by the entry point in progress
  seen,          \* per caller: the raw rows the last aggregation read saw
  calls,         \* per caller: entry points invoked so far
  prev,          \* the last generateForDate entry point that returned
  thrown,        \* per caller: the error the entry point rejected with, if any
  written,       \* per caller: the count upsertSnapshots returned, if it did
  timeZone,      \* the local time zone of the process (Date's local time)
  nowDate,       \* calculatePortfolioPerformance: the argument now
  currentValueUsd, \* calculatePortfolioPerformance: the argument currentValueUsd
  snapshots,     \* calculatePortfolioPerformance: the argument snapshots
  response,      \* calculatePortfolioPerformance: the value returned, if it did
  log,           \* the entries written through Logger.warn and Logger.error
  users,         \* table users: the ids of the users that exist
  portfolioAssets,    \* table portfolio_assets: a set of rows
  portfolioSnapshots, \* table portfolio_snapshots: a set of rows
  rpc,           \* PortfolioService: position of the entry point in progress
  rop,           \* PortfolioService: the entry point in progress
  ruser,         \* createSnapshot: its argument userId
  assetBalances, \* createSnapshot: its local assetBalances
  totalValueUsd, \* createSnapshot: its local totalValueUsd
  pending,       \* the all-users loops: the users not yet visited
  counts,        \* the all-users loops: successCount and failCount
  rtrace,        \* PortfolioService: calls made by the entry point in progress
  rresult,       \* PortfolioService: what the entry point returned or threw
  rcalls         \* PortfolioService: entry points called so far

\* The arguments and the result of the performance calculation.
perfVars == <<timeZone, nowDate, currentValueUsd, snapshots, response>>

\* The tables and the locals of PortfolioService.
recVars == <<users, portfolioAssets, portfolioSnapshots, rpc, rop, ruser,
             assetBalances, totalValueUsd, pending, counts, rtrace, rresult,
             rcalls>>

vars == <<signals, store, clock, pc, op, args, utcDate, aggregations, cursor, end,
          results, trace, seen, calls, prev, thrown, written, perfVars, log,
          recVars>>

\* ------------------------------------------------------------ the table
\* Mutant: the conflict is decided on asset_symbol alone.
UniqueConflict_AnyDate(row, snapshotDate, assetSymbol) ==
  /\ row.assetSymbol # Null
  /\ assetSymbol # Null
  /\ row.assetSymbol = assetSymbol

\* The unique index UQ_daily_snapshots_date_asset on (snapshot_date,
\* asset_symbol) arbitrates ON CONFLICT.  A unique index compares with SQL
\* equality, under which NULL equals nothing, NULL included.
UniqueConflict(row, snapshotDate, assetSymbol) ==
  /\ row.snapshotDate = snapshotDate
  /\ row.assetSymbol # Null
  /\ assetSymbol # Null
  /\ row.assetSymbol = assetSymbol

\* One entity of the batch as a freshly inserted row.
InsertedRow(date, agg, now) ==
  [id |-> <<now, agg.assetSymbol>>,
   snapshotDate |-> date,
   assetSymbol |-> agg.assetSymbol,
   avgSentiment |-> agg.avgSentiment,
   minSentiment |-> agg.minSentiment,
   maxSentiment |-> agg.maxSentiment,
   signalCount |-> agg.signalCount,
   totalVolume |-> agg.totalVolume,
   volumeWeightedSentiment |-> agg.volumeWeightedSentiment,
   createdAt |-> now,
   updatedAt |-> now]

\* DO UPDATE SET <the seven listed columns> = EXCLUDED.<column>
UpdatedRow(row, agg, now) ==
  [row EXCEPT !.avgSentiment = agg.avgSentiment,
              !.minSentiment = agg.minSentiment,
              !.maxSentiment = agg.maxSentiment,
              !.signalCount = agg.signalCount,
              !.totalVolume = agg.totalVolume,
              !.volumeWeightedSentiment = agg.volumeWeightedSentiment,
              !.updatedAt = now]

Range(seq) == {seq[i] : i \in 1 .. Len(seq)}

\* The table after INSERT ... VALUES (entities) ON CONFLICT (snapshot_date,
\* asset_symbol) DO UPDATE, executed at time `now` on table `tbl`.
upsertSnapshots(tbl, date, aggs, now) ==
  LET entities == Range(aggs)
      Hit(row) == {e \in entities : UniqueConflict(row, date, e.assetSymbol)}
      Fresh == {e \in entities :
                  \A row \in tbl : ~UniqueConflict(row, date, e.assetSymbol)}
  IN {IF Hit(row) = {} THEN row
      ELSE UpdatedRow(row, CHOOSE e \in Hit(row) : TRUE, now) : row \in tbl}
     \cup {InsertedRow(date, e, now) : e \in Fresh}

\* ---------------------------------------------------------------- result
\* Mutant: every row of the batch is counted as an asset row.
RunResult_Total(date, aggs) ==
  [date |-> date,
   assetRowsWritten |-> Len(aggs),
   globalRowWritten |-> \E i \in 1 .. Len(aggs) : aggs[i].assetSymbol = Null]

\* SnapshotRunResult without durationMs (wall-clock time, not modelled).
RunResult(date, aggs) ==
  [date |-> date,
   assetRowsWritten |-> Cardinality({i \in 1 .. Len(aggs) : aggs[i].assetSymbol # Null}),
   globalRowWritten |-> \E i \in 1 .. Len(aggs) : aggs[i].assetSymbol = Null]

ZeroResult(date) ==
  [date |-> date, assetRowsWritten |-> 0, globalRowWritten |-> FALSE]

Event(call, date, ok) == [call |-> call, date |-> date, ok |-> ok]

\* The error a repository call may reject with.
Errors == {"db connection lost"}
\* A repository call that rejected with `err`.
\* An entry of the log: its level, its message and what it is about.
LogEntry(level, message, about) ==
  [level |-> level, message |-> message, about |-> about]

Failure(call, date, err) ==
  [call |-> call, date |-> date, ok |-> FALSE, err |-> err]

\* The statistic columns of a stored row (identity and timestamps dropped).
Stats(row) ==
  [snapshotDate |-> row.snapshotDate,
   assetSymbol |-> row.assetSymbol,
   avgSentiment |-> row.avgSentiment,
   minSentiment |-> row.minSentiment,
   maxSentiment |-> row.maxSentiment,
   signalCount |-> row.signalCount,
   totalVolume |-> row.totalVolume,
   volumeWeightedSentiment |-> row.volumeWeightedSentiment]

\* findByDate: the stored rows of one date.
findByDate(tbl, date) == {row \in tbl : row.snapshotDate = date}

\* The rows of `date` as a bag of statistic tuples (duplicates counted).
StatsBag(tbl, date) ==
  LET R == findByDate(tbl, date)
  IN [x \in {Stats(row) : row \in R} |->
        Cardinality({row \in R : Stats(row) = x})]

NoRun == [date |-> -1]
NoArgs == [from |-> 0, to |-> 0]

\* The shape of the state: the two tables and each caller's locals.
TypeOK ==
  /\ IsABag(signals)
  /\ \A s \in BagToSet(signals) :
       /\ s.asset_symbol \in {Some(a) : a \in Assets} \cup {Null}
       /\ s.sentiment_score \in Scores
       /\ s.volume \in {Some(v) : v \in Volumes} \cup {Null}
       /\ s.signal_timestamp \in Nat
  /\ clock \in Nat
  /\ \A row \in store :
       /\ row.snapshotDate \in Nat /\ row.snapshotDate % TicksPerDay = 0
       /\ row.assetSymbol \in {Some(a) : a \in Assets} \cup {Null}
       /\ row.signalCount \in Nat
       /\ row.createdAt \in 1 .. clock /\ row.updatedAt \in row.createdAt .. clock
  /\ \A r1 \in store, r2 \in store : r1.id = r2.id => r1 = r2
  /\ pc \in [Procs -> {"idle", "gen_aggregate", "gen_upsert", "returned",
                       "threw", "queried"}]
  /\ op \in [Procs -> {"none", "generateForDate", "backfill", "aggregateForDate",
                        "handleDailySnapshot",
                       "upsertSnapshots", "generateForYesterday"}]
  /\ \A p \in Procs :
       /\ args[p].from \in Nat /\ args[p].to \in Nat
       /\ utcDate[p] \in Nat
       /\ cursor[p] \in Nat /\ cursor[p] % TicksPerDay = 0
       /\ end[p] \in Times /\ end[p] % TicksPerDay = 0
       /\ calls[p] \in Nat
       /\ IsABag(seen[p])
       /\ pc[p] = "gen_upsert" => Len(aggregations[p]) > 0
       /\ \A i \in 1 .. Len(results[p]) : results[p][i].date % TicksPerDay = 0
       /\ thrown[p] \in {Some(e) : e \in Errors} \cup {Null}
       /\ thrown[p] # Null <=> pc[p] = "threw"
       /\ written[p] \in {Some(n) : n \in 0 .. 3} \cup {Null}

\* ------------------------------------------------------------------- init
InitShared ==
  /\ signals = EmptyBag
  /\ store = {}
  /\ clock = 0
  /\ pc = [p \in Procs |-> "idle"]
  /\ op = [p \in Procs |-> "none"]
  /\ args = [p \in Procs |-> NoArgs]
  /\ utcDate = [p \in Procs |-> 0]
  /\ aggregations = [p \in Procs |-> <<>>]
  /\ cursor = [p \in Procs |-> 0]
  /\ end = [p \in Procs |-> 0]
  /\ results = [p \in Procs |-> <<>>]
  /\ trace = [p \in Procs |-> <<>>]
  /\ seen = [p \in Procs |-> EmptyBag]
  /\ calls = [p \in Procs |-> 0]
  /\ prev = NoRun
  /\ thrown = [p \in Procs |-> Null]
  /\ written = [p \in Procs |-> Null]

\* No performance calculation is under way.
InitNoPerf ==
  /\ timeZone = [before |-> 0, after |-> 0, at |-> 0]
  /\ nowDate = 0
  /\ currentValueUsd = <<0, 1>>
  /\ snapshots = <<>>
  /\ response = Null

\* PortfolioService is idle over empty tables.
InitNoRec ==
  /\ log = <<>>
  /\ users = {}
  /\ portfolioAssets = {}
  /\ portfolioSnapshots = {}
  /\ rpc = "idle"
  /\ rop = "none"
  /\ ruser = ""
  /\ assetBalances = <<>>
  /\ totalValueUsd = <<0, 1>>
  /\ pending = <<>>
  /\ counts = [success |-> 0, failed |-> 0]
  /\ rtrace = <<>>
  /\ rresult = Null
  /\ rcalls = 0

Init == InitShared /\ InitNoPerf /\ InitNoRec

\* ---------------------------------------------------------------- actions
\* The raw signal source inserts one row.
AddSignal(s) ==
  /\ BagCardinality(signals) < MaxSignals
  /\ signals' = signals (+) SetToBag({s})
  /\ UNCHANGED <<store, clock, pc, op, args, utcDate, aggregations, cursor, end,
                 results, trace, seen, calls, prev, thrown, written>>
  /\ UNCHANGED perfVars
  /\ UNCHANGED <<log, recVars>>

\* A raw row is deleted from sentiment_signals.
RemoveSignal(s) ==
  /\ BagIn(s, signals)
  /\ signals' = signals (-) SetToBag({s})
  /\ UNCHANGED <<store, clock, pc, op, args, utcDate, aggregations, cursor, end,
                 results, trace, seen, calls, prev, thrown, written>>
  /\ UNCHANGED perfVars
  /\ UNCHANGED <<log, recVars>>

\* generateForDate(date) is entered: lines 19-25 up to the first await.
CallGenerateForDate(p, date) ==
  /\ pc[p] = "idle"
  /\ calls' = [calls EXCEPT ![p] = @ + 1]
  /\ op' = [op EXCEPT ![p] = "generateForDate"]
  /\ args' = [args EXCEPT ![p] = [from |-> date, to |-> date]]
  /\ utcDate' = [utcDate EXCEPT ![p] = toUtcMidnight(date)]
  /\ pc' = [pc EXCEPT ![p] = "gen_aggregate"]
  /\ results' = [results EXCEPT ![p] = <<>>]
  /\ trace' = [trace EXCEPT ![p] = <<>>]
  /\ aggregations' = [aggregations EXCEPT ![p] = <<>>]
  /\ UNCHANGED <<signals, store, clock, cursor, end, seen, prev, thrown, written>>
  /\ UNCHANGED perfVars
  /\ UNCHANGED <<log, recVars>>

\* generateForYesterday() is entered at the instant `now` (new Date()):
\* lines 70-73, then generateForDate(yesterday) up to its first await.
CallGenerateForYesterday(p, now) ==
  /\ pc[p] = "idle"
  /\ calls' = [calls EXCEPT ![p] = @ + 1]
  /\ op' = [op EXCEPT ![p] = "generateForYesterday"]
  /\ args' = [args EXCEPT ![p] = [from |-> now, to |-> now]]
  /\ utcDate' = [utcDate EXCEPT ![p] =
                   toUtcMidnight(setUTCDate(now, getUTCDate(now) - 1))]
  /\ pc' = [pc EXCEPT ![p] = "gen_aggregate"]
  /\ results' = [results EXCEPT ![p] = <<>>]
  /\ trace' = [trace EXCEPT ![p] = <<>>]
  /\ aggregations' = [aggregations EXCEPT ![p] = <<>>]
  /\ UNCHANGED <<signals, store, clock, cursor, end, seen, prev, thrown, written>>
  /\ UNCHANGED perfVars
  /\ UNCHANGED <<log, recVars>>

\* The scheduler fires handleDailySnapshot at instant `now`: the handler
\* calls generateForYesterday() inside its try.
CallHandleDailySnapshot(p, now) ==
  /\ pc[p] = "idle"
  /\ calls' = [calls EXCEPT ![p] = @ + 1]
  /\ op' = [op EXCEPT ![p] = "handleDailySnapshot"]
  /\ args' = [args EXCEPT ![p] = [from |-> now, to |-> now]]
  /\ utcDate' = [utcDate EXCEPT ![p] =
                   toUtcMidnight(setUTCDate(now, getUTCDate(now) - 1))]
  /\ pc' = [pc EXCEPT ![p] = "gen_aggregate"]
  /\ results' = [results EXCEPT ![p] = <<>>]
  /\ trace' = [trace EXCEPT ![p] = <<>>]
  /\ aggregations' = [aggregations EXCEPT ![p] = <<>>]
  /\ UNCHANGED <<signals, store, clock, cursor, end, seen, prev, thrown, written>>
  /\ UNCHANGED perfVars
  /\ UNCHANGED <<log, recVars>>

\* backfill(from, to) is entered: lines 82-88 up to the first await.
CallBackfill(p, from, to) ==
  /\ pc[p] = "idle"
  /\ calls' = [calls EXCEPT ![p] = @ + 1]
  /\ op' = [op EXCEPT ![p] = "backfill"]
  /\ args' = [args EXCEPT ![p] = [from |-> from, to |-> to]]
  /\ cursor' = [cursor EXCEPT ![p] = toUtcMidnight(from)]
  /\ end' = [end EXCEPT ![p] = toUtcMidnight(to)]
  /\ results' = [results EXCEPT ![p] = <<>>]
  /\ trace' = [trace EXCEPT ![p] = <<>>]
  /\ aggregations' = [aggregations EXCEPT ![p] = <<>>]
  /\ IF toUtcMidnight(from) <= toUtcMidnight(to)
     THEN /\ pc' = [pc EXCEPT ![p] = "gen_aggregate"]
          /\ utcDate' = [utcDate EXCEPT ![p] = toUtcMidnight(toUtcMidnight(from))]
     ELSE /\ pc' = [pc EXCEPT ![p] = "returned"]
          /\ UNCHANGED utcDate
  /\ UNCHANGED <<signals, store, clock, seen, prev, thrown, written>>
  /\ UNCHANGED perfVars
  /\ UNCHANGED <<log, recVars>>

\* generateForDate returns `res`: to its caller when it is the entry point,
\* else into backfill's loop (lines 88-93), which pushes the result, advances
\* the cursor and tests the loop condition again.
AfterGenerate(p, res) ==
  /\ results' = [results EXCEPT ![p] = Append(@, res)]
  /\ IF op[p] = "backfill"
     THEN LET c == NextUtcDate(cursor[p]) IN
          /\ cursor' = [cursor EXCEPT ![p] = c]
          /\ IF c <= end[p]
             THEN /\ pc' = [pc EXCEPT ![p] = "gen_aggregate"]
                  /\ utcDate' = [utcDate EXCEPT ![p] = toUtcMidnight(c)]
             ELSE /\ pc' = [pc EXCEPT ![p] = "returned"]
                  /\ UNCHANGED utcDate
     ELSE /\ pc' = [pc EXCEPT ![p] = "returned"]
          /\ UNCHANGED <<cursor, utcDate>>

\* Mutant: the zero-row guard is missing, the empty array goes to the upsert.
AggregateResolves_NoGuard(p, aggs) ==
  /\ pc[p] = "gen_aggregate"
  /\ aggregations' = [aggregations EXCEPT ![p] = aggs]
  /\ trace' = [trace EXCEPT ![p] =
                 Append(@, Event("aggregateForDate", utcDate[p], TRUE))]
  /\ seen' = [seen EXCEPT ![p] = signals]
  /\ pc' = [pc EXCEPT ![p] = "gen_upsert"]
  /\ UNCHANGED <<signals, store, clock, op, args, utcDate, cursor, end, results,
                 calls, prev, thrown, written>>
  /\ UNCHANGED perfVars
  /\ UNCHANGED <<log, recVars>>

\* aggregateForDate resolves with the array `aggs` (line 25) and
\* generateForDate runs on to the zero-row return (27-37) or to the upsert
\* call (39-45).
AggregateResolves(p, aggs) ==
  /\ pc[p] = "gen_aggregate"
  /\ aggregations' = [aggregations EXCEPT ![p] = aggs]
  /\ trace' = [trace EXCEPT ![p] =
                 Append(@, Event("aggregateForDate", utcDate[p], TRUE))]
  /\ seen' = [seen EXCEPT ![p] = signals]
  /\ IF Len(aggs) = 0
     THEN AfterGenerate(p, ZeroResult(utcDate[p]))
     ELSE /\ pc' = [pc EXCEPT ![p] = "gen_upsert"]
          /\ UNCHANGED <<results, cursor, utcDate>>
  /\ UNCHANGED <<signals, store, clock, op, args, end, calls, prev, thrown, written>>
  /\ UNCHANGED perfVars
  /\ UNCHANGED <<log, recVars>>

\* The repository's own query resolves: one of the arrays it can return.
AggregateOk(p) ==
  \E aggs \in aggregateForDate(signals, utcDate[p]) : AggregateResolves(p, aggs)

\* Mutant: the handler logs the error and throws it again.
Rejects_Rethrow(p, err) ==
  /\ pc' = [pc EXCEPT ![p] = "threw"]
  /\ thrown' = [thrown EXCEPT ![p] = Some(err)]
  /\ log' = IF op[p] = "handleDailySnapshot"
            THEN Append(log, LogEntry("error", "Nightly snapshot job failed", err))
            ELSE log

\* The entry point rejects with err.  Under handleDailySnapshot the catch
\* logs the error and the handler returns; elsewhere err reaches the caller.
Rejects(p, err) ==
  IF op[p] = "handleDailySnapshot"
  THEN /\ pc' = [pc EXCEPT ![p] = "returned"]
       /\ log' = Append(log, LogEntry("error", "Nightly snapshot job failed", err))
       /\ UNCHANGED thrown
  ELSE /\ pc' = [pc EXCEPT ![p] = "threw"]
       /\ thrown' = [thrown EXCEPT ![p] = Some(err)]
       /\ UNCHANGED log

\* Mutant: a failed day is caught, counted as a zero-row day, and the
\* backfill loop goes on (the isolation of the all-accounts loop).
AggregateFail_Isolated(p) ==
  /\ pc[p] = "gen_aggregate"
  /\ \E err \in Errors :
       trace' = [trace EXCEPT ![p] =
                   Append(@, Failure("aggregateForDate", utcDate[p], err))]
  /\ AfterGenerate(p, ZeroResult(utcDate[p]))
  /\ UNCHANGED <<signals, store, clock, op, args, aggregations, end, seen,
                 calls, prev, thrown, written>>
  /\ UNCHANGED perfVars
  /\ UNCHANGED <<log, recVars>>

\* Mutant: the rejection is caught and a new error is thrown in its place.
AggregateFail_Wrapped(p) ==
  /\ pc[p] = "gen_aggregate"
  /\ \E err \in Errors :
       /\ trace' = [trace EXCEPT ![p] =
                      Append(@, Failure("aggregateForDate", utcDate[p], err))]
       /\ thrown' = [thrown EXCEPT ![p] = Some("snapshot generation failed")]
  /\ pc' = [pc EXCEPT ![p] = "threw"]
  /\ UNCHANGED <<signals, store, clock, op, args, utcDate, aggregations, cursor,
                 end, results, seen, calls, prev, written>>
  /\ UNCHANGED perfVars
  /\ UNCHANGED <<log, recVars>>

\* The aggregation query rejects: nothing catches it in generateForDate or
\* in backfill.
AggregateFail(p) ==
  /\ pc[p] = "gen_aggregate"
  /\ \E err \in Errors :
       /\ trace' = [trace EXCEPT ![p] =
                      Append(@, Failure("aggregateForDate", utcDate[p], err))]
       /\ Rejects(p, err)
  /\ UNCHANGED <<signals, store, clock, op, args, utcDate, aggregations, cursor,
                 end, results, seen, calls, prev, written>>
  /\ UNCHANGED perfVars
  /\ UNCHANGED recVars

\* The upsert statement commits (lines 42-45) and generateForDate returns
\* its result (47-61).
UpsertOk(p) ==
  /\ pc[p] = "gen_upsert"
  /\ clock' = clock + 1
  /\ store' = upsertSnapshots(store, utcDate[p], aggregations[p], clock + 1)
  /\ trace' = [trace EXCEPT ![p] =
                 Append(@, Event("upsertSnapshots", utcDate[p], TRUE))]
  /\ written' = [written EXCEPT ![p] = Some(Len(aggregations[p]))]
  /\ AfterGenerate(p, RunResult(utcDate[p], aggregations[p]))
  /\ UNCHANGED <<signals, op, args, aggregations, end, seen, calls, prev, thrown>>
  /\ UNCHANGED perfVars
  /\ UNCHANGED <<log, recVars>>

\* Mutant: a failed upsert is attempted again.
UpsertFail_Retry(p) ==
  /\ pc[p] = "gen_upsert"
  /\ \E err \in Errors :
       trace' = [trace EXCEPT ![p] =
                   Append(@, Failure("upsertSnapshots", utcDate[p], err))]
  /\ UNCHANGED <<signals, store, clock, pc, op, args, utcDate, aggregations,
                 cursor, end, results, seen, calls, prev, thrown, written>>
  /\ UNCHANGED perfVars
  /\ UNCHANGED <<log, recVars>>

\* The upsert statement fails as a whole: no row is written.
UpsertFail(p) ==
  /\ pc[p] = "gen_upsert"
  /\ \E err \in Errors :
       /\ trace' = [trace EXCEPT ![p] =
                      Append(@, Failure("upsertSnapshots", utcDate[p], err))]
       /\ Rejects(p, err)
  /\ UNCHANGED <<signals, store, clock, op, args, utcDate, aggregations, cursor,
                 end, results, seen, calls, prev, written>>
  /\ UNCHANGED perfVars
  /\ UNCHANGED recVars

\* The caller takes the outcome of the entry point; the caller is idle again.
Finish(p) ==
  /\ pc[p] \in {"returned", "threw", "queried"}
  /\ pc' = [pc EXCEPT ![p] = "idle"]
  /\ op' = [op EXCEPT ![p] = "none"]
  /\ args' = [args EXCEPT ![p] = NoArgs]
  /\ utcDate' = [utcDate EXCEPT ![p] = 0]
  /\ aggregations' = [aggregations EXCEPT ![p] = <<>>]
  /\ cursor' = [cursor EXCEPT ![p] = 0]
  /\ end' = [end EXCEPT ![p] = 0]
  /\ results' = [results EXCEPT ![p] = <<>>]
  /\ trace' = [trace EXCEPT ![p] = <<>>]
  /\ seen' = [seen EXCEPT ![p] = EmptyBag]
  /\ thrown' = [thrown EXCEPT ![p] = Null]
  /\ written' = [written EXCEPT ![p] = Null]
  /\ prev' = IF pc[p] = "returned" /\ op[p] = "generateForDate"
             THEN [date |-> utcDate[p],
                   result |-> results[p][1],
                   seen |-> seen[p],
                   rows |-> StatsBag(store, utcDate[p])]
             ELSE prev
  /\ UNCHANGED <<signals, store, clock, calls>>
  /\ UNCHANGED perfVars
  /\ UNCHANGED <<log, recVars>>

\* A direct call of SnapshotRepository.aggregateForDate(utcDate) resolves.
AggregateQuery(p, date) ==
  /\ pc[p] = "idle"
  /\ \E aggs \in aggregateForDate(signals, date) :
       aggregations' = [aggregations EXCEPT ![p] = aggs]
  /\ op' = [op EXCEPT ![p] = "aggregateForDate"]
  /\ args' = [args EXCEPT ![p] = [from |-> date, to |-> date]]
  /\ utcDate' = [utcDate EXCEPT ![p] = date]
  /\ seen' = [seen EXCEPT ![p] = signals]
  /\ pc' = [pc EXCEPT ![p] = "queried"]
  /\ UNCHANGED <<signals, store, clock, cursor, end, results, trace, calls, prev, thrown, written>>
  /\ UNCHANGED perfVars
  /\ UNCHANGED <<log, recVars>>

\* A direct call of SnapshotRepository.upsertSnapshots(utcDate, aggregations)
\* resolves: 0 at once for an empty array, else after the one statement.
UpsertCall(p, date, aggs) ==
  /\ pc[p] = "idle"
  /\ calls' = [calls EXCEPT ![p] = @ + 1]
  /\ op' = [op EXCEPT ![p] = "upsertSnapshots"]
  /\ args' = [args EXCEPT ![p] = [from |-> date, to |-> date]]
  /\ utcDate' = [utcDate EXCEPT ![p] = date]
  /\ aggregations' = [aggregations EXCEPT ![p] = aggs]
  /\ IF Len(aggs) = 0
     THEN /\ written' = [written EXCEPT ![p] = Some(0)]
          /\ UNCHANGED <<store, clock>>
     ELSE /\ clock' = clock + 1
          /\ store' = upsertSnapshots(store, date, aggs, clock + 1)
          /\ written' = [written EXCEPT ![p] = Some(Len(aggs))]
  /\ pc' = [pc EXCEPT ![p] = "returned"]
  /\ UNCHANGED <<signals, cursor, end, results, trace, seen, prev, thrown>>
  /\ UNCHANGED perfVars
  /\ UNCHANGED <<log, recVars>>

\* The steps of an entry point in progress.
JobStep(p) ==
  \/ AggregateOk(p)
  \/ AggregateFail(p)
  \/ UpsertOk(p)
  \/ UpsertFail(p)
  \/ Finish(p)

Next ==
  \/ \E s \in JobSignal : AddSignal(s)
  \/ /\ calls[1] < MaxCalls
     /\ \E date \in Times : CallGenerateForDate(1, date)
  \/ /\ calls[1] < MaxCalls
     /\ \E from \in Times, to \in Times : CallBackfill(1, from, to)
  \/ JobStep(1)

\* The job driven by one caller.
Spec == Init /\ [][Next]_vars

\* The dates generateForDate passes to the repository: UTC midnights.
UtcDates == {toUtcMidnight(t) : t \in Times}

NextAgg ==
  \/ \E s \in Signal : AddSignal(s)
  \/ \E date \in UtcDates : AggregateQuery(1, date)
  \/ Finish(1)

\* The aggregation query alone, over every raw table within the bounds.
SpecAgg == Init /\ [][NextAgg]_vars

\* The raw rows used where single runs are examined: either asset, at the
\* first instant of day 0 (the other days have no record).
RunSignal == {s \in JobSignal : s.sentiment_score = 1 /\ s.signal_timestamp = 0}

NextRun ==
  \/ \E s \in RunSignal : AddSignal(s)
  \/ /\ calls[1] < MaxRuns
     /\ \E date \in Times : CallGenerateForDate(1, date)
  \/ /\ calls[1] < MaxRuns
     /\ \E from \in Times, to \in Times : CallBackfill(1, from, to)
  \/ JobStep(1)

\* Single runs of generateForDate and backfill over every pair of dates.
SpecRun == Init /\ [][NextRun]_vars

NextRerun ==
  \/ \E s \in RunSignal : AddSignal(s)
  \/ \E s \in RunSignal : RemoveSignal(s)
  \/ /\ calls[1] < MaxCalls
     /\ \E date \in Times : CallGenerateForDate(1, date)
  \/ JobStep(1)

\* Repeated runs of generateForDate over raw data that grows and shrinks
\* between them.
SpecRerun == Init /\ [][NextRerun]_vars

NextBackfill ==
  \/ /\ calls[1] = 0
     /\ \E from \in Times, to \in Times : CallBackfill(1, from, to)
  \/ JobStep(1)

\* One backfill, over every pair of dates, in which every awaited repository
\* call settles: a pending step of the job is eventually taken.
SpecBackfill == Init /\ [][NextBackfill]_vars /\ WF_vars(JobStep(1))

\* An aggregation row as the generator's tests build it: fixed statistics
\* under the given key.
makeAggregation(assetSymbol) ==
  [assetSymbol |-> assetSymbol,
   avgSentiment |-> <<13, 20>>,
   minSentiment |-> <<1, 10>>,
   maxSentiment |-> <<19, 20>>,
   signalCount |-> 42,
   totalVolume |-> <<1000000, 1>>,
   volumeWeightedSentiment |-> <<17, 25>>]

\* The arrays a mocked aggregateForDate resolves with: the rows of any set
\* of keys in any order, the empty array included.
MockAggregations ==
  UNION {Perms({makeAggregation(k) : k \in K}) :
           K \in SUBSET ({Some(a) : a \in Assets} \cup {Null})}

\* repo.aggregateForDate.mockResolvedValue(aggs)
AggregateMock(p) == \E aggs \in MockAggregations : AggregateResolves(p, aggs)

NextMock ==
  \/ /\ calls[1] < MaxRuns
     /\ \E date \in Times : CallGenerateForDate(1, date)
  \/ /\ calls[1] < MaxRuns
     /\ \E date \in UtcDates, aggs \in MockAggregations : UpsertCall(1, date, aggs)
  \/ AggregateMock(1)
  \/ UpsertOk(1)
  \/ UpsertFail(1)
  \/ Finish(1)

\* generateForDate against a repository whose aggregation resolves with any
\* array, and upsertSnapshots called directly with any array.
SpecMock == Init /\ [][NextMock]_vars

\* The days on which the nightly entry point is examined: 2 January 1970,
\* the first of February and of March 1970, 1 January 1971, 1 March 1972
\* (after 29 February) and the day after.
NowDays == {1, 31, 59, 365, 790, 791}
\* The instants of those days.
NowTimes == {day * TicksPerDay + t : day \in NowDays, t \in 0 .. TicksPerDay - 1}

\* The raw rows of the days before those days: one row per day.
YesterdaySignal ==
  [asset_symbol : {Some("BTC")}, sentiment_score : {1}, volume : {Some(2)},
   signal_timestamp : {(day - 1) * TicksPerDay : day \in NowDays}]

NextYesterday ==
  \/ \E s \in YesterdaySignal : AddSignal(s)
  \/ /\ calls[1] < MaxRuns
     /\ \E now \in NowTimes : CallGenerateForYesterday(1, now)
  \/ JobStep(1)

\* Single runs of generateForYesterday at instants around month and year
\* boundaries.
SpecYesterday == Init /\ [][NextYesterday]_vars

\* The schedule '0 1 * * *' (UTC) on those days: the first tick of the day,
\* in which 01:00 falls.
NightlyTimes == {day * TicksPerDay : day \in NowDays}

NextNightly ==
  \/ \E s \in YesterdaySignal : AddSignal(s)
  \/ /\ calls[1] < MaxRuns
     /\ \E now \in NightlyTimes : CallHandleDailySnapshot(1, now)
  \/ JobStep(1)

\* Nights on which the scheduler fires handleDailySnapshot.
SpecNightly == Init /\ [][NextNightly]_vars

\* The instants two concurrent callers pass: midnight of days 0 and 1.
ConcTimes == {0, TicksPerDay}

NextConc ==
  \/ \E s \in JobSignal : AddSignal(s)
  \/ \E p \in Procs :
       \/ /\ calls[p] < MaxConcCalls
          /\ \E date \in ConcTimes : CallGenerateForDate(p, date)
       \/ /\ calls[p] < MaxConcCalls
          /\ \E from \in ConcTimes, to \in ConcTimes : CallBackfill(p, from, to)
       \/ JobStep(p)

\* Two callers whose reads and writes interleave (a manual run or backfill
\* overlapping the nightly run): each await is a point where the other runs.
SpecConc == Init /\ [][NextConc]_vars

\* Raw rows of BTC on the days of ConcTimes.
DatesSignal ==
  {s \in JobSignal : /\ s.asset_symbol = Some("BTC")
                     /\ s.sentiment_score = 1
                     /\ s.volume = Some(2)
                     /\ s.signal_timestamp \in ConcTimes}

\* The day each caller runs: day 0 for the first, day 1 for the second.
DateOf(p) == (p - 1) * TicksPerDay

NextDates ==
  \/ \E s \in DatesSignal : AddSignal(s)
  \/ \E p \in Procs :
       \/ /\ calls[p] < MaxConcCalls
          /\ CallGenerateForDate(p, DateOf(p))
       \/ JobStep(p)

\* Two callers running generateForDate for different days, their reads and
\* writes interleaved.
SpecDates == Init /\ [][NextDates]_vars


\* ------------------------------------------- portfolio performance utils
\* (apps/backend/src/portfolio/utils/portfolio-performance.utils.ts)
\* A Date is here an integer number of hours since the epoch; a decimal
\* string and a JS number are the exact rational they denote.

MaxSnapshots == 2     \* length of the snapshots array

\* Mutant: the windows in another order.
PERFORMANCE_WINDOWS_Reordered ==
  <<[window |-> "7d", hours |-> 24 * 7],
    [window |-> "24h", hours |-> 24],
    [window |-> "30d", hours |-> 24 * 30]>>

PERFORMANCE_WINDOWS ==
  <<[window |-> "24h", hours |-> 24],
    [window |-> "7d", hours |-> 24 * 7],
    [window |-> "30d", hours |-> 24 * 30]>>

\* The offset of local time from UTC at instant t: timeZone.before up to the
\* zone's transition instant timeZone.at, timeZone.after from then on.
LocalTZA(t) == IF t < timeZone.at THEN timeZone.before ELSE timeZone.after

\* The instant of a local time: the earliest instant that shows it; for a
\* local time skipped by the transition, the offset before the transition.
UTC(local) ==
  LET valid == {t \in {local - timeZone.before, local - timeZone.after} :
                  t + LocalTZA(t) = local}
  IN IF valid # {} THEN SetMin(valid) ELSE local - timeZone.before

\* d.getHours(): the hour of the day in local time
getHours(d) == (d + LocalTZA(d)) % 24
\* d.setHours(h): hour h of d's local day, counted on from its first hour
setHours(d, h) == UTC(((d + LocalTZA(d)) \div 24) * 24 + h)

calculateBaselineDate(n, hours) == setHours(n, getHours(n) - hours)

\* [...snapshots].sort((a, b) => a.createdAt - b.createdAt): a stable sort.
InsertByCreatedAt(sorted, x) ==
  LET k == Cardinality({i \in 1 .. Len(sorted) : sorted[i].createdAt <= x.createdAt})
  IN SubSeq(sorted, 1, k) \o <<x>> \o SubSeq(sorted, k + 1, Len(sorted))

RECURSIVE SortByCreatedAt(_)
SortByCreatedAt(seq) ==
  IF seq = <<>> THEN <<>>
  ELSE InsertByCreatedAt(SortByCreatedAt(SubSeq(seq, 1, Len(seq) - 1)),
                         seq[Len(seq)])

\* The loop of findClosestSnapshot from position i on; minDiff is Null while
\* it is Infinity.
RECURSIVE ScanClosest(_, _, _, _, _)
ScanClosest(sortedSnapshots, targetDate, i, closestSnapshot, minDiff) ==
  IF i > Len(sortedSnapshots) THEN closestSnapshot
  ELSE LET snapshot == sortedSnapshots[i]
           diff == Abs(snapshot.createdAt - targetDate)
       IN IF /\ snapshot.createdAt <= targetDate
             /\ (minDiff = Null \/ diff < minDiff[1])
          THEN ScanClosest(sortedSnapshots, targetDate, i + 1,
                           Some(snapshot), Some(diff))
          ELSE ScanClosest(sortedSnapshots, targetDate, i + 1,
                           closestSnapshot, minDiff)

findClosestSnapshot(snaps, targetDate) ==
  IF Len(snaps) = 0 THEN Null
  ELSE ScanClosest(SortByCreatedAt(snaps), targetDate, 1, Null, Null)

RatSub(a, b) == Rat(a[1] * b[2] - b[1] * a[2], a[2] * b[2])
RatMul(a, b) == Rat(a[1] * b[1], a[2] * b[2])
\* a / b for b # 0
RatDiv(a, b) == IF b[1] > 0 THEN Rat(a[1] * b[2], a[2] * b[1])
                ELSE Rat(-(a[1] * b[2]), a[2] * (-b[1]))

RECURSIVE Pow10(_)
Pow10(k) == IF k = 0 THEN 1 ELSE 10 * Pow10(k - 1)

\* parseFloat(x.toFixed(digits)): the nearest multiple of 10^-digits, a tie
\* going away from zero.
toFixed(x, digits) ==
  LET scaled == Abs(x[1]) * Pow10(digits)
      q == scaled \div x[2]
      r == scaled % x[2]
      m == IF 2 * r >= x[2] THEN q + 1 ELSE q
  IN Rat(IF x[1] < 0 THEN -m ELSE m, Pow10(digits))

\* Mutant: without a baseline the current value is reported as the gain.
calculateWindowPerformance_KeepPnl(currentValue, baselineSnapshot, windowConfig) ==
  IF baselineSnapshot = Null
  THEN [window |-> windowConfig.window,
        hasData |-> FALSE,
        absolutePnl |-> Some(currentValue),
        percentageChange |-> Null,
        currentValueUsd |-> currentValue,
        baselineValueUsd |-> Null,
        baselineDate |-> Null]
  ELSE LET baselineValue == parseFloat(baselineSnapshot[1].totalValueUsd)
           absolutePnl == RatSub(currentValue, baselineValue)
           percentageChange ==
             IF baselineValue # <<0, 1>>
             THEN RatMul(RatDiv(absolutePnl, baselineValue), <<100, 1>>)
             ELSE <<0, 1>>
       IN [window |-> windowConfig.window,
           hasData |-> TRUE,
           absolutePnl |-> Some(toFixed(absolutePnl, 2)),
           percentageChange |-> Some(toFixed(percentageChange, 4)),
           currentValueUsd |-> currentValue,
           baselineValueUsd |-> Some(baselineValue),
           baselineDate |-> Some(baselineSnapshot[1].createdAt)]

\* Mutant: the percentage is taken from the rounded gain.
calculateWindowPerformance_RoundedPnl(currentValue, baselineSnapshot, windowConfig) ==
  IF baselineSnapshot = Null
  THEN [window |-> windowConfig.window,
        hasData |-> FALSE,
        absolutePnl |-> Null,
        percentageChange |-> Null,
        currentValueUsd |-> currentValue,
        baselineValueUsd |-> Null,
        baselineDate |-> Null]
  ELSE LET baselineValue == parseFloat(baselineSnapshot[1].totalValueUsd)
           absolutePnl == toFixed(RatSub(currentValue, baselineValue), 2)
           percentageChange ==
             IF baselineValue # <<0, 1>>
             THEN RatMul(RatDiv(absolutePnl, baselineValue), <<100, 1>>)
             ELSE <<0, 1>>
       IN [window |-> windowConfig.window,
           hasData |-> TRUE,
           absolutePnl |-> Some(absolutePnl),
           percentageChange |-> Some(toFixed(percentageChange, 4)),
           currentValueUsd |-> currentValue,
           baselineValueUsd |-> Some(baselineValue),
           baselineDate |-> Some(baselineSnapshot[1].createdAt)]

\* baselineSnapshot is Null or Some(snapshot); the nullable fields of the
\* result are Null or Some(value).
calculateWindowPerformance(currentValue, baselineSnapshot, windowConfig) ==
  IF baselineSnapshot = Null
  THEN [window |-> windowConfig.window,
        hasData |-> FALSE,
        absolutePnl |-> Null,
        percentageChange |-> Null,
        currentValueUsd |-> currentValue,
        baselineValueUsd |-> Null,
        baselineDate |-> Null]
  ELSE LET baselineValue == parseFloat(baselineSnapshot[1].totalValueUsd)
           absolutePnl == RatSub(currentValue, baselineValue)
           percentageChange ==
             IF baselineValue # <<0, 1>>
             THEN RatMul(RatDiv(absolutePnl, baselineValue), <<100, 1>>)
             ELSE <<0, 1>>
       IN [window |-> windowConfig.window,
           hasData |-> TRUE,
           absolutePnl |-> Some(toFixed(absolutePnl, 2)),
           percentageChange |-> Some(toFixed(percentageChange, 4)),
           currentValueUsd |-> currentValue,
           baselineValueUsd |-> Some(baselineValue),
           baselineDate |-> Some(baselineSnapshot[1].createdAt)]

calculatePortfolioPerformance(userId, currentValue, snaps, n) ==
  [userId |-> userId,
   currentValueUsd |-> currentValue,
   calculatedAt |-> n,
   windows |->
     [i \in 1 .. Len(PERFORMANCE_WINDOWS) |->
        LET config == PERFORMANCE_WINDOWS[i]
            baselineDate == calculateBaselineDate(n, config.hours)
            baselineSnapshot == findClosestSnapshot(snaps, baselineDate)
        IN calculateWindowPerformance(currentValue, baselineSnapshot, config)]]

\* The instants `now` of the calculation, in hours since the epoch.
NowDates == {1000, 1001}
\* Time zones of the process: UTC, and two zones whose clocks went forward,
\* or back, by an hour ten hours before the first of NowDates.
TimeZones ==
  {[before |-> 0, after |-> 0, at |-> 0],
   [before |-> -5, after |-> -4, at |-> 990],
   [before |-> -4, after |-> -5, at |-> 990]}
\* Creation instants: at each window's lookback before hour 1000, and the
\* hour after it.
SnapshotDates ==
  {1000 - PERFORMANCE_WINDOWS[i].hours + d : i \in 1 .. 3, d \in {0, 1}}
\* totalValueUsd: "0.00", "30.00", "100.00"
TotalValues == {<<0, 1>>, <<30, 1>>, <<100, 1>>}
\* currentValueUsd: 50 and 133.333
CurrentValues == {<<50, 1>>, <<133333, 1000>>}
\* SnapshotData: the two fields the calculation reads.
SnapshotData == [createdAt : SnapshotDates, totalValueUsd : TotalValues]

InitPerf ==
  /\ InitShared
  /\ InitNoRec
  /\ timeZone \in TimeZones
  /\ nowDate \in NowDates
  /\ currentValueUsd \in CurrentValues
  /\ snapshots \in UNION {[1 .. k -> SnapshotData] : k \in 0 .. MaxSnapshots}
  /\ response = Null

\* calculatePortfolioPerformance(userId, currentValueUsd, snapshots, now)
CalculatePerformance ==
  /\ response = Null
  /\ response' = Some(calculatePortfolioPerformance("user-1", currentValueUsd,
                                                    snapshots, nowDate))
  /\ UNCHANGED <<signals, store, clock, pc, op, args, utcDate, aggregations,
                 cursor, end, results, trace, seen, calls, prev, thrown, written>>
  /\ UNCHANGED <<timeZone, nowDate, currentValueUsd, snapshots>>
  /\ UNCHANGED <<log, recVars>>

NextPerf == CalculatePerformance

\* One performance calculation over every input within the bounds.
SpecPerf == InitPerf /\ [][NextPerf]_vars


\* ------------------------------------------------------ portfolio service
\* (apps/backend/src/portfolio: PortfolioService, StellarBalanceService)
\* An amount string and a JS number are the exact rational they denote; the
\* service has one entry point in progress at a time.

MaxServiceCalls == 1   \* entry points of PortfolioService called in one run

\* The ids a caller may pass; the table users holds some of them.
UserIds == {"u1", "u2"}

RatAdd(a, b) == Rat(a[1] * b[2] + b[1] * a[2], a[2] * b[2])

\* Horizon's account.balances: a native line, a credit line and a
\* liquidity-pool share, which has neither code nor issuer.
NativeLine ==
  [asset_type |-> "native", asset_code |-> Null, asset_issuer |-> Null,
   balance |-> <<28, 25>>]
CreditLine ==
  [asset_type |-> "credit_alphanum4", asset_code |-> Some("USDC"),
   asset_issuer |-> Some("GA5Z"), balance |-> <<2, 1>>]
PoolShareLine ==
  [asset_type |-> "liquidity_pool_shares", asset_code |-> Null,
   asset_issuer |-> Null, balance |-> <<3, 1>>]
AccountBalances ==
  {<<>>, <<NativeLine>>, <<CreditLine, NativeLine>>, <<PoolShareLine>>}

\* The rows the table portfolio_assets may hold.
PortfolioAssetRows ==
  {[userId |-> "u1", assetCode |-> "USDC", assetIssuer |-> Some("GA5Z"),
    amount |-> <<5, 1>>],
   [userId |-> "u1", assetCode |-> "DOGE", assetIssuer |-> Some("GDOG"),
    amount |-> <<7, 1>>],
   [userId |-> "u2", assetCode |-> "XLM", assetIssuer |-> Null,
    amount |-> <<9, 4>>]}

\* balances.map(...).filter(b => b !== null) of getAccountBalances
RECURSIVE MapBalanceLines(_)
MapBalanceLines(lines) ==
  IF lines = <<>> THEN <<>>
  ELSE LET balance == Head(lines)
           rest == MapBalanceLines(Tail(lines))
       IN IF balance.asset_type = "native"
          THEN <<[assetCode |-> "XLM", assetIssuer |-> Null,
                  balance |-> balance.balance]>> \o rest
          ELSE IF balance.asset_code # Null /\ balance.asset_issuer # Null
          THEN <<[assetCode |-> balance.asset_code[1],
                  assetIssuer |-> balance.asset_issuer,
                  balance |-> balance.balance]>> \o rest
          ELSE rest

\* mockPrices[assetCode] || 0
mockPrices(assetCode) ==
  CASE assetCode = "XLM" -> <<3, 25>>
    [] assetCode = "USDC" -> <<1, 1>>
    [] assetCode = "BTC" -> <<45000, 1>>
    [] OTHER -> <<0, 1>>

getAssetValueUsd(assetCode, assetIssuer, amount) ==
  RatMul(amount, mockPrices(assetCode))

\* stellarBalances.map(...) of createSnapshot: the holdings with their value
ValueBalances(stellarBalances) ==
  [i \in 1 .. Len(stellarBalances) |->
     LET balance == stellarBalances[i]
     IN [assetCode |-> balance.assetCode,
         assetIssuer |-> balance.assetIssuer,
         amount |-> balance.balance,
         valueUsd |-> getAssetValueUsd(balance.assetCode, balance.assetIssuer,
                                       balance.balance)]]

\* portfolioAssets.map(...) of createSnapshot
ValueAssets(assets) ==
  [i \in 1 .. Len(assets) |->
     LET asset == assets[i]
     IN [assetCode |-> asset.assetCode,
         assetIssuer |-> asset.assetIssuer,
         amount |-> asset.amount,
         valueUsd |-> getAssetValueUsd(asset.assetCode, asset.assetIssuer,
                                       asset.amount)]]

\* Mutant: totalValueUsd = valueUsd, the last holding's value.
SumValueUsd_Last(balances) ==
  IF balances = <<>> THEN <<0, 1>>
  ELSE balances[Len(balances)].valueUsd

\* totalValueUsd += valueUsd, over the holdings in order
RECURSIVE SumValueUsd(_)
SumValueUsd(balances) ==
  IF balances = <<>> THEN <<0, 1>>
  ELSE RatAdd(balances[1].valueUsd, SumValueUsd(Tail(balances)))

\* A call of a collaborator, as the entry point in progress made it.
ServiceCall(call, user, ok, value) ==
  [call |-> call, userId |-> user, ok |-> ok, value |-> value]

\* The errors a collaborator's promise may reject with.
NotFoundException == "NotFoundException"
QueryFailed == "QueryFailedError"
NetworkError == "NetworkError"

\* Mutant: a failure of one user ends the loop.
Settled_Abort(ok, value) ==
  IF rop \in {"createSnapshotsForAllUsers", "triggerSnapshotCreation"}
  THEN LET counted == IF ok THEN [counts EXCEPT !.success = @ + 1]
                      ELSE [counts EXCEPT !.failed = @ + 1]
           rest == IF ok THEN Tail(pending) ELSE <<>>
       IN /\ counts' = counted
          /\ log' = IF ok THEN log
                    ELSE Append(log, LogEntry("error",
                                  "Failed to create snapshot", ruser))
          /\ pending' = rest
          /\ IF rest = <<>>
             THEN /\ rpc' = "returned"
                  /\ rresult' = IF rop = "triggerSnapshotCreation"
                                THEN Some(counted) ELSE Null
                  /\ UNCHANGED ruser
             ELSE /\ rpc' = "find_user"
                  /\ ruser' = Head(rest)
                  /\ UNCHANGED rresult
  ELSE IF rop = "getPortfolioPerformance" /\ ok
  THEN /\ rpc' = "query"
       /\ rresult' = Some(value)
       /\ UNCHANGED <<counts, log, pending, ruser>>
  ELSE /\ rpc' = IF ok THEN "returned" ELSE "threw"
       /\ rresult' = Some(value)
       /\ UNCHANGED <<counts, log, pending, ruser>>

\* createSnapshot has settled, with its snapshot (ok) or an error: the
\* continuation of its caller up to the next await.
Settled(ok, value) ==
  IF rop \in {"createSnapshotsForAllUsers", "triggerSnapshotCreation"}
  THEN LET counted == IF ok THEN [counts EXCEPT !.success = @ + 1]
                      ELSE [counts EXCEPT !.failed = @ + 1]
           rest == Tail(pending)
       IN /\ counts' = counted
          /\ log' = IF ok THEN log
                    ELSE Append(log, LogEntry("error",
                                  "Failed to create snapshot", ruser))
          /\ pending' = rest
          /\ IF rest = <<>>
             THEN /\ rpc' = "returned"
                  /\ rresult' = IF rop = "triggerSnapshotCreation"
                                THEN Some(counted) ELSE Null
                  /\ UNCHANGED ruser
             ELSE /\ rpc' = "find_user"
                  /\ ruser' = Head(rest)
                  /\ UNCHANGED rresult
  ELSE IF rop = "getPortfolioPerformance" /\ ok
  THEN /\ rpc' = "query"
       /\ rresult' = Some(value)
       /\ UNCHANGED <<counts, log, pending, ruser>>
  ELSE /\ rpc' = IF ok THEN "returned" ELSE "threw"
       /\ rresult' = Some(value)
       /\ UNCHANGED <<counts, log, pending, ruser>>

jobVars == <<signals, store, clock, pc, op, args, utcDate, aggregations, cursor,
             end, results, trace, seen, calls, prev, thrown, written>>

\* d.getDate() and d.setDate(day), in local time.  The day is counted from
\* the epoch rather than from the start of the month: setDate rolls over the
\* ends of the months, so setDate(getDate() - k) is k local days earlier.
getDate(d) == (d + LocalTZA(d)) \div 24
setDate(d, day) == UTC(day * 24 + ((d + LocalTZA(d)) % 24))

\* createSnapshot(userId) is called.
CallCreateSnapshot(user) ==
  /\ rpc = "idle"
  /\ rcalls < MaxServiceCalls
  /\ rcalls' = rcalls + 1
  /\ rpc' = "find_user"
  /\ rop' = "createSnapshot"
  /\ ruser' = user
  /\ rtrace' = <<>>
  /\ rresult' = Null
  /\ UNCHANGED <<users, portfolioAssets, portfolioSnapshots, assetBalances,
                 totalValueUsd, pending, counts, log>>
  /\ UNCHANGED <<jobVars, perfVars>>

\* createSnapshotsForAllUsers() or triggerSnapshotCreation() is called.
CallAllUsers(name) ==
  /\ rpc = "idle"
  /\ rcalls < MaxServiceCalls
  /\ rcalls' = rcalls + 1
  /\ rpc' = "find_users"
  /\ rop' = name
  /\ counts' = [success |-> 0, failed |-> 0]
  /\ rtrace' = <<>>
  /\ rresult' = Null
  /\ UNCHANGED <<users, portfolioAssets, portfolioSnapshots, ruser,
                 assetBalances, totalValueUsd, pending, log>>
  /\ UNCHANGED <<jobVars, perfVars>>

\* getPortfolioPerformance(userId) is called.
CallGetPortfolioPerformance(user) ==
  /\ rpc = "idle"
  /\ rcalls < MaxServiceCalls
  /\ rcalls' = rcalls + 1
  /\ rpc' = "perf_find_user"
  /\ rop' = "getPortfolioPerformance"
  /\ ruser' = user
  /\ rtrace' = <<>>
  /\ rresult' = Null
  /\ UNCHANGED <<users, portfolioAssets, portfolioSnapshots, assetBalances,
                 totalValueUsd, pending, counts, log>>
  /\ UNCHANGED <<jobVars, perfVars>>

\* await userRepository.find() resolves, the users in some order.
FindUsersResolves(found) ==
  /\ rpc = "find_users"
  /\ rtrace' = Append(rtrace, ServiceCall("userRepository.find", "", TRUE, found))
  /\ pending' = found
  /\ IF found = <<>>
     THEN /\ rpc' = "returned"
          /\ rresult' = IF rop = "triggerSnapshotCreation"
                        THEN Some(counts) ELSE Null
          /\ UNCHANGED ruser
     ELSE /\ rpc' = "find_user"
          /\ ruser' = Head(found)
          /\ UNCHANGED rresult
  /\ UNCHANGED <<users, portfolioAssets, portfolioSnapshots, rop, rcalls,
                 assetBalances, totalValueUsd, counts, log>>
  /\ UNCHANGED <<jobVars, perfVars>>

\* await userRepository.find() rejects: nothing catches it.
FindUsersRejects ==
  /\ rpc = "find_users"
  /\ rtrace' = Append(rtrace, ServiceCall("userRepository.find", "", FALSE, QueryFailed))
  /\ rpc' = "threw"
  /\ rresult' = Some(QueryFailed)
  /\ UNCHANGED <<users, portfolioAssets, portfolioSnapshots, rop, rcalls, ruser,
                 assetBalances, totalValueUsd, pending, counts, log>>
  /\ UNCHANGED <<jobVars, perfVars>>

\* getPortfolioPerformance: its own userRepository.findOne resolves; with a
\* user it calls createSnapshot.
PerformanceFindUser ==
  /\ rpc = "perf_find_user"
  /\ rtrace' = Append(rtrace, ServiceCall("userRepository.findOne", ruser, TRUE, Null))
  /\ IF ruser \in users
     THEN /\ rpc' = "find_user"
          /\ UNCHANGED rresult
     ELSE /\ rpc' = "threw"
          /\ rresult' = Some(NotFoundException)
  /\ UNCHANGED <<users, portfolioAssets, portfolioSnapshots, rop, rcalls, ruser,
                 assetBalances, totalValueUsd, pending, counts, log>>
  /\ UNCHANGED <<jobVars, perfVars>>

\* Mutant: the user is not looked at.
FindUserResolves_NoCheck ==
  /\ rpc = "find_user"
  /\ rtrace' = Append(rtrace, ServiceCall("userRepository.findOne", ruser, TRUE, Null))
  /\ rpc' = "fetch_live"
  /\ assetBalances' = <<>>
  /\ totalValueUsd' = <<0, 1>>
  /\ UNCHANGED <<counts, log, pending, ruser, rresult>>
  /\ UNCHANGED <<users, portfolioAssets, portfolioSnapshots, rop, rcalls>>
  /\ UNCHANGED <<jobVars, perfVars>>

\* createSnapshot: await userRepository.findOne resolves; without a user
\* NotFoundException is thrown.
FindUserResolves ==
  /\ rpc = "find_user"
  /\ rtrace' = Append(rtrace, ServiceCall("userRepository.findOne", ruser, TRUE, Null))
  /\ IF ruser \in users
     THEN /\ rpc' = "fetch_live"
          /\ assetBalances' = <<>>
          /\ totalValueUsd' = <<0, 1>>
          /\ UNCHANGED <<counts, log, pending, ruser, rresult>>
     ELSE /\ Settled(FALSE, NotFoundException)
          /\ UNCHANGED <<assetBalances, totalValueUsd>>
  /\ UNCHANGED <<users, portfolioAssets, portfolioSnapshots, rop, rcalls>>
  /\ UNCHANGED <<jobVars, perfVars>>

\* createSnapshot: await userRepository.findOne rejects.
FindUserRejects ==
  /\ rpc = "find_user"
  /\ rtrace' = Append(rtrace, ServiceCall("userRepository.findOne", ruser, FALSE, QueryFailed))
  /\ Settled(FALSE, QueryFailed)
  /\ UNCHANGED <<users, portfolioAssets, portfolioSnapshots, rop, rcalls,
                 assetBalances, totalValueUsd>>
  /\ UNCHANGED <<jobVars, perfVars>>

\* createSnapshot: await getAccountBalances resolves, Horizon having answered
\* with the balance lines `lines`.
LiveResolves(lines) ==
  LET stellarBalances == MapBalanceLines(lines)
      valued == ValueBalances(stellarBalances)
  IN /\ rpc = "fetch_live"
     /\ rtrace' = Append(rtrace, ServiceCall("getAccountBalances", ruser, TRUE,
                                             stellarBalances))
     /\ assetBalances' = valued
     /\ totalValueUsd' = SumValueUsd(valued)
     /\ rpc' = "save"
     /\ UNCHANGED <<users, portfolioAssets, portfolioSnapshots, rop, rcalls, ruser,
                    pending, counts, log, rresult>>
     /\ UNCHANGED <<jobVars, perfVars>>

\* Mutant: the failure of the live fetch is the failure of createSnapshot.
LiveRejects_Propagate ==
  /\ rpc = "fetch_live"
  /\ rtrace' = Append(rtrace, ServiceCall("getAccountBalances", ruser, FALSE,
                                          NetworkError))
  /\ Settled(FALSE, NetworkError)
  /\ UNCHANGED <<users, portfolioAssets, portfolioSnapshots, rop, rcalls,
                 assetBalances, totalValueUsd>>
  /\ UNCHANGED <<jobVars, perfVars>>

\* createSnapshot: await getAccountBalances rejects (it logs and rethrows);
\* the catch warns and turns to the table portfolio_assets.
LiveRejects ==
  /\ rpc = "fetch_live"
  /\ rtrace' = Append(rtrace, ServiceCall("getAccountBalances", ruser, FALSE,
                                          NetworkError))
  /\ log' = log \o <<LogEntry("error", "Failed to fetch balances", ruser),
                     LogEntry("warn", "using portfolio assets as fallback", ruser)>>
  /\ rpc' = "fetch_fallback"
  /\ UNCHANGED <<users, portfolioAssets, portfolioSnapshots, rop, rcalls, ruser,
                 assetBalances, totalValueUsd, pending, counts, rresult>>
  /\ UNCHANGED <<jobVars, perfVars>>

\* createSnapshot: await assetRepository.find({where: {userId}}) resolves,
\* the user's rows in some order.
FallbackResolves(assets) ==
  LET valued == ValueAssets(assets)
  IN /\ rpc = "fetch_fallback"
     /\ rtrace' = Append(rtrace, ServiceCall("assetRepository.find", ruser, TRUE,
                                             assets))
     /\ assetBalances' = valued
     /\ totalValueUsd' = SumValueUsd(valued)
     /\ rpc' = "save"
     /\ UNCHANGED <<users, portfolioAssets, portfolioSnapshots, rop, rcalls, ruser,
                    pending, counts, log, rresult>>
     /\ UNCHANGED <<jobVars, perfVars>>

\* createSnapshot: await assetRepository.find rejects.
FallbackRejects ==
  /\ rpc = "fetch_fallback"
  /\ rtrace' = Append(rtrace, ServiceCall("assetRepository.find", ruser, FALSE,
                                          QueryFailed))
  /\ Settled(FALSE, QueryFailed)
  /\ UNCHANGED <<users, portfolioAssets, portfolioSnapshots, rop, rcalls,
                 assetBalances, totalValueUsd>>
  /\ UNCHANGED <<jobVars, perfVars>>

\* snapshotRepository.create({userId, assetBalances, totalValueUsd:
\* totalValueUsd.toFixed(2)}) as the insert stores it: a generated id and
\* createdAt the instant of the insert.
NewSnapshot ==
  [id |-> SetMax({0} \cup {s.id : s \in portfolioSnapshots}) + 1,
   userId |-> ruser,
   createdAt |-> nowDate,
   assetBalances |-> assetBalances,
   totalValueUsd |-> toFixed(totalValueUsd, 2)]

\* Mutant: the save replaces the user's earlier snapshots.
SaveResolves_Replace ==
  /\ rpc = "save"
  /\ rtrace' = Append(rtrace, ServiceCall("snapshotRepository.save", ruser, TRUE,
                                          NewSnapshot))
  /\ portfolioSnapshots' =
       {s \in portfolioSnapshots : s.userId # ruser} \cup {NewSnapshot}
  /\ Settled(TRUE, NewSnapshot)
  /\ UNCHANGED <<users, portfolioAssets, rop, rcalls, assetBalances, totalValueUsd>>
  /\ UNCHANGED <<jobVars, perfVars>>

\* createSnapshot: await snapshotRepository.save resolves, the row inserted.
SaveResolves ==
  /\ rpc = "save"
  /\ rtrace' = Append(rtrace, ServiceCall("snapshotRepository.save", ruser, TRUE,
                                          NewSnapshot))
  /\ portfolioSnapshots' = portfolioSnapshots \cup {NewSnapshot}
  /\ Settled(TRUE, NewSnapshot)
  /\ UNCHANGED <<users, portfolioAssets, rop, rcalls, assetBalances, totalValueUsd>>
  /\ UNCHANGED <<jobVars, perfVars>>

\* createSnapshot: await snapshotRepository.save rejects.
SaveRejects ==
  /\ rpc = "save"
  /\ rtrace' = Append(rtrace, ServiceCall("snapshotRepository.save", ruser, FALSE,
                                          QueryFailed))
  /\ Settled(FALSE, QueryFailed)
  /\ UNCHANGED <<users, portfolioAssets, portfolioSnapshots, rop, rcalls,
                 assetBalances, totalValueUsd>>
  /\ UNCHANGED <<jobVars, perfVars>>

\* The caller has taken the result: the service is idle again.
ServiceFinish ==
  /\ rpc \in {"returned", "threw"}
  /\ rpc' = "idle"
  /\ rop' = "none"
  /\ ruser' = ""
  /\ assetBalances' = <<>>
  /\ totalValueUsd' = <<0, 1>>
  /\ pending' = <<>>
  /\ counts' = [success |-> 0, failed |-> 0]
  /\ rtrace' = <<>>
  /\ rresult' = Null
  /\ UNCHANGED <<users, portfolioAssets, portfolioSnapshots, rcalls, log>>
  /\ UNCHANGED <<jobVars, perfVars>>

\* The rows of portfolio_assets of one user, in each order a query without
\* ORDER BY may return them.
AssetsOf(user) == Perms({a \in portfolioAssets : a.userId = user})

CreateSnapshotStep ==
  \/ FindUserResolves
  \/ FindUserRejects
  \/ \E lines \in AccountBalances : LiveResolves(lines)
  \/ LiveRejects
  \/ \E assets \in AssetsOf(ruser) : FallbackResolves(assets)
  \/ FallbackRejects
  \/ SaveResolves
  \/ SaveRejects

\* A snapshot of u1 that an earlier createSnapshot has stored.
EarlierSnapshot ==
  [id |-> 1,
   userId |-> "u1",
   createdAt |-> 0,
   assetBalances |-> ValueBalances(MapBalanceLines(<<CreditLine>>)),
   totalValueUsd |-> <<2, 1>>]

\* The tables a run of the service may start from: some of the users exist,
\* portfolio_assets holds rows of existing users, and portfolio_snapshots is
\* empty or holds an earlier snapshot.
InitRecord ==
  /\ InitShared
  /\ InitNoPerf
  /\ log = <<>>
  /\ users \in (SUBSET UserIds) \ {{}, {"u2"}}
  /\ portfolioAssets \in SUBSET {a \in PortfolioAssetRows : a.userId \in users}
  /\ portfolioSnapshots \in {{}, {EarlierSnapshot}}
  /\ rpc = "idle"
  /\ rop = "none"
  /\ ruser = ""
  /\ assetBalances = <<>>
  /\ totalValueUsd = <<0, 1>>
  /\ pending = <<>>
  /\ counts = [success |-> 0, failed |-> 0]
  /\ rtrace = <<>>
  /\ rresult = Null
  /\ rcalls = 0

NextRecord ==
  \/ \E user \in UserIds : CallCreateSnapshot(user)
  \/ \E name \in {"createSnapshotsForAllUsers", "triggerSnapshotCreation"} :
       CallAllUsers(name)
  \/ \E found \in Perms(users) : FindUsersResolves(found)
  \/ FindUsersRejects
  \/ CreateSnapshotStep
  \/ ServiceFinish

\* Snapshots recorded for single users and for all users.
SpecRecord == InitRecord /\ [][NextRecord]_vars


\* getPortfolioPerformance: the snapshots of the user created at or after
\* thirtyDaysAgo, in each order that ORDER BY createdAt DESC allows.
HistoricalSnapshots(thirtyDaysAgo) ==
  {seq \in Perms({s \in portfolioSnapshots :
                    s.userId = ruser /\ s.createdAt >= thirtyDaysAgo}) :
     \A i, j \in 1 .. Len(seq) : i < j => seq[i].createdAt >= seq[j].createdAt}

\* getPortfolioPerformance: await snapshotRepository.find resolves and the
\* performance is calculated, at the instant n of the calculation's new Date().
PerformanceQueryResolves(historicalSnapshots, n) ==
  LET currentSnapshot == rresult[1]
      current == parseFloat(Some(currentSnapshot.totalValueUsd))
  IN /\ rpc = "query"
     /\ rtrace' = Append(rtrace, ServiceCall("snapshotRepository.find", ruser,
                                             TRUE, historicalSnapshots))
     /\ nowDate' = n
     /\ rresult' = Some(calculatePortfolioPerformance(ruser, current[1],
                                                      historicalSnapshots, n))
     /\ rpc' = "returned"
     /\ UNCHANGED <<users, portfolioAssets, portfolioSnapshots, rop, rcalls, ruser,
                    assetBalances, totalValueUsd, pending, counts, log>>
     /\ UNCHANGED <<timeZone, currentValueUsd, snapshots, response>>
     /\ UNCHANGED jobVars

\* getPortfolioPerformance: await snapshotRepository.find rejects.
PerformanceQueryRejects ==
  /\ rpc = "query"
  /\ rtrace' = Append(rtrace, ServiceCall("snapshotRepository.find", ruser,
                                          FALSE, QueryFailed))
  /\ rresult' = Some(QueryFailed)
  /\ rpc' = "threw"
  /\ UNCHANGED <<users, portfolioAssets, portfolioSnapshots, rop, rcalls, ruser,
                 assetBalances, totalValueUsd, pending, counts, log>>
  /\ UNCHANGED <<jobVars, perfVars>>

\* The instant of the request, in hours since the epoch.
RequestDate == 1000
\* Snapshots stored before the request: of u1, 31 days, 30 days, 7 days and
\* 24 hours before it, and one of u2.
StoredSnapshot(id, user, createdAt) ==
  [id |-> id,
   userId |-> user,
   createdAt |-> createdAt,
   assetBalances |-> ValueBalances(MapBalanceLines(<<CreditLine>>)),
   totalValueUsd |-> <<2, 1>>]
StoredSnapshots ==
  {StoredSnapshot(1, "u1", RequestDate - 24 * 31),
   StoredSnapshot(2, "u1", RequestDate - 24 * 30),
   StoredSnapshot(3, "u1", RequestDate - 24 * 7),
   StoredSnapshot(4, "u1", RequestDate - 24),
   StoredSnapshot(5, "u2", RequestDate - 24 * 40)}

InitPerformance ==
  /\ InitShared
  /\ log = <<>>
  /\ users \in (SUBSET UserIds) \ {{}, {"u2"}}
  /\ portfolioAssets = {a \in PortfolioAssetRows : a.userId \in users}
  /\ portfolioSnapshots \in SUBSET {s \in StoredSnapshots : s.userId \in users}
  /\ rpc = "idle"
  /\ rop = "none"
  /\ ruser = ""
  /\ assetBalances = <<>>
  /\ totalValueUsd = <<0, 1>>
  /\ pending = <<>>
  /\ counts = [success |-> 0, failed |-> 0]
  /\ rtrace = <<>>
  /\ rresult = Null
  /\ rcalls = 0
  /\ timeZone \in TimeZones
  /\ nowDate = RequestDate
  /\ currentValueUsd = <<0, 1>>
  /\ snapshots = <<>>
  /\ response = Null

NextPerformance ==
  \/ \E user \in UserIds : CallGetPortfolioPerformance(user)
  \/ PerformanceFindUser
  \/ CreateSnapshotStep
  \/ \E n \in {nowDate, nowDate + 1} :
       \E historicalSnapshots
            \in HistoricalSnapshots(setDate(nowDate, getDate(nowDate) - 30)) :
         PerformanceQueryResolves(historicalSnapshots, n)
  \/ PerformanceQueryRejects
  \/ ServiceFinish

\* Requests for the performance of a user over stored snapshots.
SpecPerformance == InitPerformance /\ [][NextPerformance]_vars


\* ================================================================= claims
\* The raw rows of `sig` on the UTC day of `date` (a set of Signal rows).
DayRecords(sig, date) ==
  {s \in BagToSet(sig) : s.signal_timestamp \div TicksPerDay = date \div TicksPerDay}

Keys(aggs) == {aggs[i].assetSymbol : i \in 1 .. Len(aggs)}

\* C1: runForDate(D) called twice with unchanged raw data leaves the store
\* with the same rows for D as after the first call (same (date,key) set,
\* same statistics, no row more or less) and returns the same counts.
C1_Idempotent ==
  (/\ pc[1] = "returned"
   /\ op[1] = "generateForDate"
   /\ prev.date = utcDate[1]
   /\ prev.seen = seen[1])
  => /\ results[1][1] = prev.result
     /\ StatsBag(store, utcDate[1]) = prev.rows

\* C2: the store holds at most one row for each (snapshotDate, key), the
\* null key of the global row counted as a key like any other.
C2_OneRowPerDateKey ==
  \A r1 \in store, r2 \in store :
    (r1.snapshotDate = r2.snapshotDate /\ r1.assetSymbol = r2.assetSymbol)
    => r1 = r2

\* C3: runForDate on a date with zero raw records performs no store write
\* and returns {nonGlobalRowsWritten: 0, globalRowWritten: false}.
C3_NoDataNoWrite ==
  (/\ pc[1] = "returned"
   /\ op[1] = "generateForDate"
   /\ DayRecords(seen[1], utcDate[1]) = {})
  => /\ results[1][1] = ZeroResult(utcDate[1])
     /\ \A i \in 1 .. Len(trace[1]) : trace[1][i].call # "upsertSnapshots"

\* C4: every aggregation result has exactly one row with a null key, its
\* other rows have pairwise distinct non-null keys, and the non-null keys
\* are exactly the distinct keys of that day's raw records.
C4_GlobalPartition ==
  pc[1] = "queried" =>
    LET aggs == aggregations[1] IN
    /\ Cardinality({i \in 1 .. Len(aggs) : aggs[i].assetSymbol = Null}) = 1
    /\ \A i \in 1 .. Len(aggs), j \in 1 .. Len(aggs) :
         aggs[i].assetSymbol = aggs[j].assetSymbol => i = j
    /\ Keys(aggs) \ {Null} =
         {s.asset_symbol : s \in DayRecords(seen[1], utcDate[1])} \ {Null}

C4_Witness ==
  /\ pc[1] = "queried"
  /\ Len(aggregations[1]) = 2
  /\ \E s \in DayRecords(seen[1], utcDate[1]) : s.asset_symbol = Null
  /\ \E s \in DayRecords(seen[1], utcDate[1]) : s.asset_symbol # Null

\* The weight a raw record carries: its volume, nothing when it has none.
Weight(s) == IF s.volume = Null THEN 0 ELSE s.volume[1]
\* The raw records of one aggregation row: those of its key, or all of the
\* day for the global row.
GroupOf(sig, date, key) ==
  {s \in DayRecords(sig, date) : key = Null \/ s.asset_symbol = key}

\* C5: in every aggregation row weightedAvg is null iff totalWeight is null
\* or 0; otherwise weightedAvg * sum(weight) = sum(score * weight), both sums
\* over the records of the row's group with each record's own weight.
C5_WeightedAvg ==
  pc[1] = "queried" =>
    \A i \in 1 .. Len(aggregations[1]) :
      LET row == aggregations[1][i]
          G == GroupOf(seen[1], utcDate[1], row.assetSymbol)
          sumW == SumFn([s \in G |-> seen[1][s] * Weight(s)], G)
          sumSW == SumFn([s \in G |-> seen[1][s] * s.sentiment_score * Weight(s)], G)
          w == row.volumeWeightedSentiment
      IN /\ (w = Null) <=> (row.totalVolume = Null \/ row.totalVolume = <<0, 1>>)
         /\ row.totalVolume # Null => row.totalVolume = <<sumW, 1>>
         /\ w # Null => /\ w[2] > 0
                        /\ w[1] * sumW = sumSW * w[2]

C5_Witness ==
  /\ pc[1] = "queried"
  /\ \E i \in 1 .. Len(aggregations[1]) :
       /\ aggregations[1][i].totalVolume = <<0, 1>>
       /\ aggregations[1][i].volumeWeightedSentiment = Null
  /\ \E i \in 1 .. Len(aggregations[1]) :
       /\ aggregations[1][i].volumeWeightedSentiment # Null
       /\ aggregations[1][i].volumeWeightedSentiment # aggregations[1][i].avgSentiment


\* The statistic columns an aggregation row gives a stored row of `date`.
AggStats(date, agg) ==
  [snapshotDate |-> date,
   assetSymbol |-> agg.assetSymbol,
   avgSentiment |-> agg.avgSentiment,
   minSentiment |-> agg.minSentiment,
   maxSentiment |-> agg.maxSentiment,
   signalCount |-> agg.signalCount,
   totalVolume |-> agg.totalVolume,
   volumeWeightedSentiment |-> agg.volumeWeightedSentiment]

\* C6: when two runForDate invocations for the same date have run
\* concurrently, the store holds exactly one row per (date,key) and every
\* such row is the full row computed by one of the two runs.
C6_ConcurrentRuns ==
  (/\ \A p \in Procs : pc[p] = "returned" /\ op[p] = "generateForDate"
   /\ utcDate[1] = utcDate[2])
  => LET rows == findByDate(store, utcDate[1]) IN
     /\ \A r1 \in rows, r2 \in rows : r1.assetSymbol = r2.assetSymbol => r1 = r2
     /\ \A r \in rows :
          \E p \in Procs : \E i \in 1 .. Len(aggregations[p]) :
            Stats(r) = AggStats(utcDate[1], aggregations[p][i])
     /\ \A p \in Procs : \A i \in 1 .. Len(aggregations[p]) :
          \E r \in rows : r.assetSymbol = aggregations[p][i].assetSymbol

\* C7: an upsert that meets an existing row with the same (date,key)
\* replaces that row's statistics and update timestamp and keeps its id and
\* creation timestamp; a batch row without a counterpart is inserted.
C7_UpsertOverwrites ==
  [][(pc[1] = "gen_upsert" /\ clock' = clock + 1) =>
       \A i \in 1 .. Len(aggregations[1]) :
         LET e == aggregations[1][i]
             old == {r \in store : /\ r.snapshotDate = utcDate[1]
                                   /\ r.assetSymbol = e.assetSymbol}
             new == {r \in store' : /\ r.snapshotDate = utcDate[1]
                                    /\ r.assetSymbol = e.assetSymbol}
         IN IF old # {}
            THEN /\ {r.id : r \in new} = {r.id : r \in old}
                 /\ \A r \in old : \E r2 \in new :
                      /\ r2.id = r.id
                      /\ r2.createdAt = r.createdAt
                      /\ r2.updatedAt = clock'
                      /\ Stats(r2) = AggStats(utcDate[1], e)
            ELSE /\ Cardinality(new) = 1
                 /\ \A r2 \in new : /\ Stats(r2) = AggStats(utcDate[1], e)
                                    /\ r2.createdAt = clock'
                                    /\ r2.updatedAt = clock'
    ]_vars

\* The repository calls of one kind in a trace.
CallsOf(t, call) == SelectSeq(t, LAMBDA e : e.call = call)

\* C8: runBackfill(from, to) returns one result per calendar day of
\* [from, to] in ascending order, none repeated or skipped, after one
\* runForDate (one aggregation read) per such day; with from > to it returns
\* an empty sequence after no read and no write.
C8_BackfillRange ==
  (pc[1] = "returned" /\ op[1] = "backfill") =>
    LET first == args[1].from \div TicksPerDay
        last == args[1].to \div TicksPerDay
        n == IF first <= last THEN last - first + 1 ELSE 0
        reads == CallsOf(trace[1], "aggregateForDate")
    IN /\ Len(results[1]) = n
       /\ \A i \in 1 .. n : results[1][i].date = (first + i - 1) * TicksPerDay
       /\ Len(reads) = n
       /\ \A i \in 1 .. n : reads[i].date = (first + i - 1) * TicksPerDay
       /\ n = 0 => trace[1] = <<>>

C8_Witness ==
  /\ pc[1] = "returned"
  /\ op[1] = "backfill"
  /\ Len(results[1]) = NumDays
  /\ args[1].from % TicksPerDay # 0

\* C9: when runForDate fails for day k inside runBackfill the error leaves
\* backfill at once: the failed call is the last repository call, no later
\* day is read or written, and the rows of the earlier days stay as written.
C9_BackfillStops ==
  /\ [](op[1] = "backfill" =>
          /\ \A i \in 1 .. Len(trace[1]) :
               ~trace[1][i].ok => (i = Len(trace[1]) /\ pc[1] = "threw")
          /\ pc[1] = "threw" =>
               /\ Len(trace[1]) > 0
               /\ ~trace[1][Len(trace[1])].ok
               /\ \A i \in 1 .. Len(results[1]) : results[1][i].date < utcDate[1])
  /\ [][(op[1] = "backfill" /\ op'[1] = "backfill") =>
          /\ \A r \in store : r.snapshotDate # utcDate[1] => r \in store'
          /\ pc'[1] = "threw" => store' = store]_vars

C9_Witness ==
  /\ pc[1] = "threw"
  /\ op[1] = "backfill"
  /\ Len(results[1]) >= 1
  /\ \E r \in store : r.snapshotDate < utcDate[1] /\ r.updatedAt = clock

\* C10: one runForDate invocation makes exactly one aggregation read and at
\* most one batch write, each attempted once whatever its outcome.
C10_OneReadOneWrite ==
  op[1] \in {"generateForDate", "backfill"} =>
    LET t == trace[1]
        N(call, d) == Cardinality({i \in 1 .. Len(t) : t[i].call = call /\ t[i].date = d})
    IN /\ \A i \in 1 .. Len(t) :
            /\ N("aggregateForDate", t[i].date) = 1
            /\ N("upsertSnapshots", t[i].date) <= 1
            /\ t[i].call = "upsertSnapshots" =>
                 /\ i > 1
                 /\ t[i - 1] = Event("aggregateForDate", t[i].date, TRUE)
       /\ op[1] = "generateForDate" =>
            /\ \A i \in 1 .. Len(t) : t[i].date = utcDate[1]
            /\ pc[1] \in {"gen_upsert", "returned", "threw"} =>
                 N("aggregateForDate", utcDate[1]) = 1

C10_Witness ==
  /\ pc[1] = "returned"
  /\ op[1] = "generateForDate"
  /\ Len(trace[1]) = 2

\* C11: when the aggregation read fails in runForDate the caller receives
\* that very error, no upsert is attempted and the store is unchanged; when
\* the upsert fails the caller receives that very error, the store is
\* unchanged by it and no second write is attempted.
C11_StorageFailure ==
  /\ [](op[1] = "generateForDate" =>
          /\ pc[1] = "threw" =>
               /\ trace[1] # <<>>
               /\ ~trace[1][Len(trace[1])].ok
               /\ thrown[1] = Some(trace[1][Len(trace[1])].err)
               /\ trace[1][Len(trace[1])].call = "aggregateForDate" =>
                    Len(trace[1]) = 1
               /\ Len(CallsOf(trace[1], "upsertSnapshots")) <= 1
          /\ (\E i \in 1 .. Len(trace[1]) : ~trace[1][i].ok) => pc[1] = "threw")
  /\ [][(op[1] = "generateForDate" /\ op'[1] = "generateForDate") =>
          /\ CallsOf(trace'[1], "upsertSnapshots") = <<>> => store' = store
          /\ pc'[1] = "threw" => store' = store
          /\ pc[1] = "threw" => UNCHANGED <<store, trace, thrown, written>>]_vars

C11_Witness ==
  /\ pc[1] = "threw"
  /\ op[1] = "generateForDate"
  /\ trace[1] = <<Failure("aggregateForDate", utcDate[1], "db connection lost")>>
  /\ DayRecords(signals, utcDate[1]) # {}

\* C12: whenever aggregate returns an empty sequence, runForDate does not
\* invoke upsert and returns {nonGlobalRowsWritten: 0, globalRowWritten:
\* false}; upsert called with an empty row set writes nothing and returns 0.
C12_EmptyGuard ==
  /\ []((op[1] = "generateForDate" /\ aggregations[1] = <<>>
          /\ trace[1] # <<>> /\ trace[1][1].ok) =>
          /\ pc[1] = "returned"
          /\ results[1] = <<ZeroResult(utcDate[1])>>
          /\ trace[1] = <<Event("aggregateForDate", utcDate[1], TRUE)>>
          /\ written[1] = Null)
  /\ []((op[1] = "upsertSnapshots" /\ aggregations[1] = <<>>) =>
          written[1] = Some(0))
  /\ [][(op'[1] \in {"generateForDate", "upsertSnapshots"}
          /\ aggregations'[1] = <<>>) => store' = store]_vars

C12_Witness ==
  /\ op[1] = "generateForDate"
  /\ pc[1] = "returned"
  /\ aggregations[1] = <<>>
  /\ args[1].from % TicksPerDay # 0

\* C13: runForDate(date) uses the UTC midnight of date's UTC calendar day
\* for the aggregation read, for the upsert and as result.date: its reads
\* cover the raw records of that day and its writes go to rows of that
\* date, whatever the time of day of the input.
C13_UtcMidnight ==
  /\ [](op[1] = "generateForDate" =>
          LET midnight == (args[1].from \div TicksPerDay) * TicksPerDay IN
          /\ \A i \in 1 .. Len(trace[1]) : trace[1][i].date = midnight
          /\ \A i \in 1 .. Len(results[1]) : results[1][i].date = midnight
          /\ pc[1] \in {"gen_upsert", "returned"} =>
               /\ Len(trace[1]) >= 1
               /\ Keys(aggregations[1]) \ {Null} =
                    {s.asset_symbol : s \in DayRecords(seen[1], args[1].from)}
               /\ \A d \in Times :
                    d \div TicksPerDay = args[1].from \div TicksPerDay =>
                      aggregations[1] \in aggregateForDate(seen[1], toUtcMidnight(d)))
  /\ [][(op[1] = "generateForDate" /\ op'[1] = "generateForDate") =>
          LET midnight == (args[1].from \div TicksPerDay) * TicksPerDay IN
          /\ \A r \in store' \ store : r.snapshotDate = midnight
          /\ \A r \in store \ store' : r.snapshotDate = midnight]_vars

C13_Witness ==
  /\ op[1] = "generateForDate"
  /\ pc[1] = "returned"
  /\ args[1].from % TicksPerDay # 0
  /\ Len(aggregations[1]) = 3
  /\ \E r \in store : r.snapshotDate = args[1].from - 1

\* C14: for a non-empty aggregation result runForDate passes all result
\* rows to a single upsert and returns nonGlobalRowsWritten = the number of
\* result rows with a non-null key and globalRowWritten = true exactly when
\* the result has a row with the null key.
C14_ResultCounts ==
  /\ []((op[1] = "generateForDate" /\ pc[1] = "returned"
          /\ aggregations[1] # <<>>) =>
          LET aggs == aggregations[1]
              res == results[1][1]
          IN /\ Len(results[1]) = 1
             /\ res.assetRowsWritten + (IF res.globalRowWritten THEN 1 ELSE 0)
                  = Len(aggs)
             /\ res.assetRowsWritten =
                  Cardinality({i \in 1 .. Len(aggs) : aggs[i].assetSymbol # Null})
             /\ res.globalRowWritten <=> Null \in Keys(aggs)
             /\ trace[1] = <<Event("aggregateForDate", utcDate[1], TRUE),
                             Event("upsertSnapshots", utcDate[1], TRUE)>>
             /\ written[1] = Some(Len(aggs)))
  /\ [][(op[1] = "generateForDate" /\ pc[1] = "gen_upsert"
          /\ pc'[1] = "returned") =>
          \A i \in 1 .. Len(aggregations[1]) :
            \E r \in store' : /\ Stats(r) = AggStats(utcDate[1], aggregations[1][i])
                               /\ r.updatedAt = clock']_vars

C14_Witness ==
  /\ op[1] = "generateForDate"
  /\ pc[1] = "returned"
  /\ Len(aggregations[1]) = 2
  /\ Null \notin Keys(aggregations[1])
  /\ results[1][1].assetRowsWritten = 2
  /\ ~results[1][1].globalRowWritten

\* C15: runForYesterday() runs runForDate for the UTC calendar date exactly
\* one day before the current UTC date, at every instant (first day of a
\* month or year included); the day it aggregates has fully elapsed.
C15_Yesterday ==
  op[1] = "generateForYesterday" =>
    LET now == args[1].from
        today == now \div TicksPerDay
    IN /\ utcDate[1] = (today - 1) * TicksPerDay
       /\ utcDate[1] + TicksPerDay <= now
       /\ \A i \in 1 .. Len(trace[1]) : trace[1][i].date = (today - 1) * TicksPerDay
       /\ \A i \in 1 .. Len(results[1]) :
            results[1][i].date = (today - 1) * TicksPerDay
       /\ pc[1] = "returned" => Len(results[1]) = 1

C15_Witness ==
  /\ op[1] = "generateForYesterday"
  /\ pc[1] = "returned"
  /\ args[1].from = (365 * TicksPerDay) + 1
  /\ getUTCDate(args[1].from) = 1
  /\ getUTCDate(utcDate[1]) = 31
  /\ results[1][1].assetRowsWritten = 1

\* The lookback of each window of the result, in hours.
LookbackHours == <<24, 168, 720>>
\* The positions of the observations eligible for a target instant.
Eligible(obs, target) == {k \in 1 .. Len(obs) : obs[k].createdAt <= target}

\* C16: for each window with lookback h hours the baseline selected is an
\* observation with the maximum observedAt among those with observedAt <=
\* now - h hours (one exactly at the target included), never one after the
\* target, and hasData is true exactly when such an observation exists.
C16_BaselineSelection ==
  response # Null =>
    \A i \in 1 .. Len(response[1].windows) :
      LET w == response[1].windows[i]
          target == nowDate - LookbackHours[i]
          E == Eligible(snapshots, target)
      IN /\ w.hasData <=> E # {}
         /\ w.hasData =>
              /\ w.baselineDate[1] <= target
              /\ w.baselineDate[1] = SetMax({snapshots[k].createdAt : k \in E})

\* The arrays that hold the elements of seq in some order.
Reorderings(seq) ==
  {[i \in 1 .. Len(seq) |-> seq[f[i]]] : f \in Perms(1 .. Len(seq))}

\* C17: for the same now and currentValue every permutation of the same
\* observations yields identical window results, also when observations
\* share their observedAt and differ in value.
C17_OrderIndependent ==
  response # Null =>
    \A q \in Reorderings(snapshots) :
      calculatePortfolioPerformance("user-1", currentValueUsd, q, nowDate).windows
        = response[1].windows

\* C18: in every window result hasData = false implies baselineValue,
\* baselineObservedAt, absolutePnl and percentageChange are all null, and
\* currentValue is the currentValue passed in whatever hasData is; with no
\* observations every window has hasData = false.
C18_NoDataNulls ==
  response # Null =>
    /\ \A i \in 1 .. Len(response[1].windows) :
         LET w == response[1].windows[i] IN
         /\ w.currentValueUsd = currentValueUsd
         /\ ~w.hasData => /\ w.baselineValueUsd = Null
                          /\ w.baselineDate = Null
                          /\ w.absolutePnl = Null
                          /\ w.percentageChange = Null
         /\ w.hasData => /\ w.baselineValueUsd # Null
                         /\ w.baselineDate # Null
    /\ snapshots = <<>> =>
         /\ Len(response[1].windows) = 3
         /\ \A i \in 1 .. 3 : ~response[1].windows[i].hasData

C18_Witness ==
  /\ response # Null
  /\ snapshots # <<>>
  /\ response[1].windows[2].hasData
  /\ ~response[1].windows[3].hasData
  /\ response[1].windows[3].currentValueUsd = <<133333, 1000>>

\* r is x rounded to `digits` decimals: a multiple of 10^-digits at most
\* half a unit of that digit away from x.
IsRounded(r, x, digits) ==
  /\ Pow10(digits) % r[2] = 0
  /\ 2 * Pow10(digits) * Abs(r[1] * x[2] - x[1] * r[2]) <= r[2] * x[2]

\* C19: with a baseline selected, absolutePnl is currentValue - baselineValue
\* rounded to 2 decimals and percentageChange is that difference divided by
\* baselineValue, times 100, rounded to 4 decimals; a baselineValue of 0
\* gives percentageChange exactly 0 with hasData = true and absolutePnl the
\* (rounded) currentValue, never a null.
C19_PnlAndPercentage ==
  response # Null =>
    \A i \in 1 .. Len(response[1].windows) :
      LET w == response[1].windows[i] IN
      w.hasData =>
        /\ w.absolutePnl # Null /\ w.percentageChange # Null
        /\ LET b == w.baselineValueUsd[1]
               gain == RatSub(currentValueUsd, b)
           IN /\ IsRounded(w.absolutePnl[1], gain, 2)
              /\ IF b = <<0, 1>>
                 THEN /\ w.percentageChange[1] = <<0, 1>>
                      /\ IsRounded(w.absolutePnl[1], currentValueUsd, 2)
                 ELSE IsRounded(w.percentageChange[1],
                                RatMul(RatDiv(gain, b), <<100, 1>>), 4)

C19_Witness ==
  /\ response # Null
  /\ currentValueUsd = <<133333, 1000>>
  /\ response[1].windows[1].hasData
  /\ response[1].windows[1].baselineValueUsd = Some(<<0, 1>>)
  /\ response[1].windows[1].absolutePnl = Some(<<13333, 100>>)
  /\ response[1].windows[2].hasData
  /\ response[1].windows[2].percentageChange = Some(<<3444433, 10000>>)

\* C20: the calculation returns exactly one result per configured window,
\* in the order 24h, 7d, 30d, the i-th computed with the i-th lookback of
\* 24, 168 and 720 hours, for every input, the empty array included.
C20_WindowsInOrder ==
  response # Null =>
    /\ Len(response[1].windows) = 3
    /\ \A i \in 1 .. 3 :
         LET label == <<"24h", "7d", "30d">>[i]
             config == [window |-> label, hours |-> LookbackHours[i]]
         IN /\ response[1].windows[i].window = label
            /\ response[1].windows[i] =
                 calculateWindowPerformance(currentValueUsd,
                   findClosestSnapshot(snapshots,
                     calculateBaselineDate(nowDate, LookbackHours[i])),
                   config)

C20_Witness ==
  /\ response # Null
  /\ response[1].windows[1].hasData
  /\ response[1].windows[2].hasData
  /\ response[1].windows[1].baselineDate # response[1].windows[2].baselineDate
  /\ ~response[1].windows[3].hasData

\* The calls named `call` that the entry point in progress has made.
ServiceCallsOf(call) == {i \in 1 .. Len(rtrace) : rtrace[i].call = call}

\* The calls that fetch holdings or write a snapshot.
FetchesAndWrites ==
  ServiceCallsOf("getAccountBalances") \cup ServiceCallsOf("assetRepository.find")
    \cup ServiceCallsOf("snapshotRepository.save")

\* C21: createSnapshot for a user that does not exist fails with
\* NotFoundException before any holdings are fetched: getAccountBalances is
\* not called, portfolio_assets is not read, and no snapshot is written.
C21_NotFound ==
  /\ [](rop = "createSnapshot" /\ ruser \notin users =>
          /\ FetchesAndWrites = {}
          /\ rpc \in {"find_user", "threw"}
          /\ (rpc = "threw" /\ rtrace[Len(rtrace)].ok =>
                rresult = Some(NotFoundException)))
  /\ [][rop = "createSnapshot" /\ ruser \notin users =>
          portfolioSnapshots' = portfolioSnapshots]_vars

C21_Witness ==
  /\ rop = "createSnapshot"
  /\ ruser \notin users
  /\ rpc = "threw"
  /\ rresult = Some(NotFoundException)
  /\ portfolioAssets # {}

\* The holdings (asset, issuer, amount) of stored balances, of the balances
\* of getAccountBalances and of rows of portfolio_assets.
HoldingsStored(balances) ==
  [i \in 1 .. Len(balances) |->
     <<balances[i].assetCode, balances[i].assetIssuer, balances[i].amount>>]
HoldingsLive(balances) ==
  [i \in 1 .. Len(balances) |->
     <<balances[i].assetCode, balances[i].assetIssuer, balances[i].balance>>]
HoldingsFallback(assets) ==
  [i \in 1 .. Len(assets) |->
     <<assets[i].assetCode, assets[i].assetIssuer, assets[i].amount>>]

\* The calls named `call` made for user u by the entry point in progress.
UserCalls(call, u) == {i \in ServiceCallsOf(call) : rtrace[i].userId = u}
Saved(u) == {i \in UserCalls("snapshotRepository.save", u) : rtrace[i].ok}

\* C22: for an existing user, when getAccountBalances succeeds the snapshot
\* holds the live holdings and portfolio_assets is not read; when it fails,
\* the failure is logged as a fallback, the user's rows of portfolio_assets
\* are read and become the holdings, and the snapshot is saved and returned
\* (createSnapshot fails only if that read or the save fails).
C22_LiveOrFallback ==
  /\ \A u \in UserIds :
       /\ \A i \in UserCalls("getAccountBalances", u) :
            IF rtrace[i].ok
            THEN /\ UserCalls("assetRepository.find", u) = {}
                 /\ \A j \in Saved(u) :
                      HoldingsStored(rtrace[j].value.assetBalances) =
                        HoldingsLive(rtrace[i].value)
            ELSE /\ \E k \in 1 .. Len(log) :
                      log[k].level = "warn" /\ log[k].about = u
                 /\ \/ rpc = "fetch_fallback" /\ ruser = u
                    \/ UserCalls("assetRepository.find", u) # {}
                 /\ \A k \in UserCalls("assetRepository.find", u) :
                      rtrace[k].ok =>
                        /\ {rtrace[k].value[n] : n \in 1 .. Len(rtrace[k].value)} =
                             {a \in portfolioAssets : a.userId = u}
                        /\ \/ rpc = "save" /\ ruser = u
                           \/ UserCalls("snapshotRepository.save", u) # {}
                        /\ \A j \in Saved(u) :
                             HoldingsStored(rtrace[j].value.assetBalances) =
                               HoldingsFallback(rtrace[k].value)
       /\ \A j \in Saved(u) : rtrace[j].value \in portfolioSnapshots
  /\ rop = "createSnapshot" /\ rpc = "returned" =>
       /\ Saved(ruser) # {}
       /\ rresult = Some(rtrace[Len(rtrace)].value)
  /\ rop = "createSnapshot" /\ rpc = "threw" /\ ruser \in users =>
       rtrace[Len(rtrace)].call # "getAccountBalances"

C22_Witness ==
  /\ rop = "createSnapshot"
  /\ rpc = "returned"
  /\ \E i \in UserCalls("getAccountBalances", ruser) : ~rtrace[i].ok
  /\ Len(rresult[1].assetBalances) = 2
  /\ rresult[1] \in portfolioSnapshots

\* The sum of valueUsd over the holdings stored in one snapshot row.
RECURSIVE HoldingsTotal(_)
HoldingsTotal(balances) ==
  IF balances = <<>> THEN <<0, 1>>
  ELSE RatAdd(balances[Len(balances)].valueUsd,
              HoldingsTotal(SubSeq(balances, 1, Len(balances) - 1)))

\* C23 as stated: every snapshot written has totalValueUsd equal to the sum
\* of valueUsd over the holdings stored in it.
C23_TotalIsSum ==
  \A s \in portfolioSnapshots :
    s.totalValueUsd = HoldingsTotal(s.assetBalances)

\* C23, amended: every snapshot written has totalValueUsd equal to the sum
\* of valueUsd over exactly the holdings stored in it, rounded to two
\* decimals, on the live path and on the fallback path (a failed live fetch
\* adds nothing to it), and no later step changes a stored total.
C23_TotalIsRoundedSum ==
  /\ [](\A s \in portfolioSnapshots :
          s.totalValueUsd = toFixed(HoldingsTotal(s.assetBalances), 2))
  /\ [][\A s \in portfolioSnapshots :
          \E t \in portfolioSnapshots' :
            t.id = s.id /\ t.totalValueUsd = s.totalValueUsd]_vars

C23_Witness ==
  \E s, t \in portfolioSnapshots :
    /\ s # EarlierSnapshot /\ t # EarlierSnapshot
    /\ s.userId = "u1" /\ t.userId = "u2"
    /\ s.totalValueUsd = <<213, 100>>
    /\ HoldingsTotal(s.assetBalances) = <<1334, 625>>
    /\ UserCalls("getAccountBalances", "u2") # {}
    /\ UserCalls("assetRepository.find", "u2") # {}
    /\ HoldingsTotal(t.assetBalances) = <<27, 100>>

AllUsersLoops == {"createSnapshotsForAllUsers", "triggerSnapshotCreation"}

\* The users that userRepository.find() returned to the loop in progress.
Found == {rtrace[1].value[n] : n \in 1 .. Len(rtrace[1].value)}

\* A step of a loop in progress: success grows with the rows appended, and
\* a failure is counted once, logged with the user's id and appends nothing.
CountedStep ==
  rop \in AllUsersLoops /\ rop' = rop =>
    /\ counts'.success - counts.success =
         Cardinality(portfolioSnapshots') - Cardinality(portfolioSnapshots)
    /\ counts'.failed - counts.failed \in {0, 1}
    /\ counts'.failed > counts.failed =>
         /\ portfolioSnapshots' = portfolioSnapshots
         /\ log' = Append(log, LogEntry("error",
                            "Failed to create snapshot", ruser))

\* C24: the all-users loops attempt createSnapshot exactly once for every
\* user whatever happens to the others; a failure is caught, logged with the
\* user's id and counted, and never ends the loop; at the end success +
\* failed is the number of users, and success counts the rows appended.
C24_PerUserIsolation ==
  /\ [](rop \in AllUsersLoops /\ rtrace # <<>> /\ rtrace[1].ok =>
          /\ Found = users
          /\ rpc # "threw"
          /\ \A u \in Found :
               Cardinality(UserCalls("userRepository.findOne", u)) <= 1
          /\ counts.success + counts.failed + Len(pending) = Cardinality(Found)
          /\ counts.success =
               Cardinality(UNION {Saved(u) : u \in Found})
          /\ rpc = "returned" =>
               /\ \A u \in Found :
                    Cardinality(UserCalls("userRepository.findOne", u)) = 1
               /\ counts.success + counts.failed = Cardinality(users)
               /\ rop = "triggerSnapshotCreation" => rresult = Some(counts))
  /\ [][CountedStep]_vars

C24_Witness ==
  /\ rop = "triggerSnapshotCreation"
  /\ rpc = "returned"
  /\ rresult = Some([success |-> 1, failed |-> 1])
  /\ \E i, j \in 1 .. Len(rtrace) :
       /\ i < j
       /\ ~rtrace[i].ok /\ rtrace[i].call = "assetRepository.find"
       /\ rtrace[j].ok /\ rtrace[j].call = "snapshotRepository.save"

\* A step of the service: the rows stored stay as they are, and one row is
\* added, for the user of the call, exactly when a save succeeds.
AppendOnlyStep ==
  LET added == portfolioSnapshots' \ portfolioSnapshots
  IN /\ portfolioSnapshots \subseteq portfolioSnapshots'
     /\ IF rpc = "save" /\ rpc' # "save" /\ rtrace'[Len(rtrace')].ok
        THEN /\ Cardinality(added) = 1
             /\ \A s \in added : s.userId = ruser
        ELSE added = {}

\* C25: the snapshots are append-only: a successful createSnapshot appends
\* exactly one row, for its user, and leaves every stored row of every user
\* as it is; a failed createSnapshot appends nothing; no step of the service
\* updates or deletes a row.
C25_AppendOnly ==
  /\ [][AppendOnlyStep]_vars
  /\ [](rop = "createSnapshot" /\ rpc = "threw" => Saved(ruser) = {})
  /\ [](rop = "createSnapshot" /\ rpc = "returned" =>
          /\ Cardinality(Saved(ruser)) = 1
          /\ Cardinality({s \in portfolioSnapshots : s.id = rresult[1].id}) = 1)

C25_Witness ==
  /\ rop = "createSnapshot"
  /\ rpc = "returned"
  /\ ruser = "u1"
  /\ EarlierSnapshot \in portfolioSnapshots
  /\ rresult[1] \in portfolioSnapshots
  /\ rresult[1] # EarlierSnapshot

\* C26: getPortfolioPerformance reports each window against the closest
\* snapshot of the user at or before now minus the window: whenever the user
\* has a stored snapshot created at or before now - 30 days, the 30d window
\* has hasData with the latest such snapshot as baseline, and likewise for
\* 24h and 7d.
C26_ClosestStored ==
  rop = "getPortfolioPerformance" /\ rpc = "returned" =>
    \A i \in 1 .. 3 :
      LET target == rresult[1].calculatedAt - LookbackHours[i]
          eligible == {s \in portfolioSnapshots :
                         s.userId = ruser /\ s.createdAt <= target}
      IN eligible # {} =>
           /\ rresult[1].windows[i].hasData
           /\ rresult[1].windows[i].baselineDate =
                Some(SetMax({s.createdAt : s \in eligible}))

\* A step in which the handler's call of generateForYesterday fails: the
\* error is logged and the store stays as it is.
NightFailsStep ==
  op[1] = "handleDailySnapshot" /\ pc[1] # "returned" /\ pc'[1] = "returned"
    /\ ~trace'[1][Len(trace'[1])].ok =>
      /\ store' = store
      /\ log' = Append(log, LogEntry("error", "Nightly snapshot job failed",
                                     trace'[1][Len(trace'[1])].err))

\* C27: handleDailySnapshot calls generateForYesterday exactly once per
\* trigger; a failure is caught and logged, never leaves the handler and is
\* not retried, and the table is left as the failed run left it.
C27_NightlyHandler ==
  /\ [](op[1] = "handleDailySnapshot" =>
          /\ pc[1] # "threw"
          /\ thrown[1] = Null
          /\ utcDate[1] = toUtcMidnight(setUTCDate(args[1].from,
                                                   getUTCDate(args[1].from) - 1))
          /\ Len(CallsOf(trace[1], "aggregateForDate")) <= 1
          /\ Len(CallsOf(trace[1], "upsertSnapshots")) <= 1
          /\ \A i \in 1 .. Len(trace[1]) :
               ~trace[1][i].ok => i = Len(trace[1]) /\ pc[1] = "returned"
          /\ pc[1] = "returned" =>
               Len(CallsOf(trace[1], "aggregateForDate")) = 1)
  /\ [][NightFailsStep]_vars

C27_Witness ==
  /\ op[1] = "handleDailySnapshot"
  /\ pc[1] = "returned"
  /\ Len(trace[1]) = 2
  /\ ~trace[1][2].ok
  /\ trace[1][2].call = "upsertSnapshots"
  /\ store = {}
  /\ log = <<LogEntry("error", "Nightly snapshot job failed", "db connection lost")>>

\* C28: after a successful runForDate(D) the rows stored for D are exactly
\* the rows of that run's aggregation result, with the same keys and the
\* same statistics: no row of D survives for a key the run did not produce,
\* also when the raw data changed between runs.
C28_ExactlyLatest ==
  pc[1] = "returned" /\ op[1] = "generateForDate" =>
    {Stats(row) : row \in findByDate(store, utcDate[1])} =
      {AggStats(utcDate[1], aggregations[1][i]) : i \in 1 .. Len(aggregations[1])}

\* The rows of the table whose snapshotDate is not `date`.
OtherDates(tbl, date) == {row \in tbl : row.snapshotDate # date}

\* A step of the job: the rows of a date change only in the upsert of a run
\* for that date, which leaves the rows of every other date as they are and
\* whose effect on its own date depends on the rows of that date alone.
OwnDateStep ==
  /\ \A p \in Procs :
       pc[p] = "gen_upsert" /\ pc'[p] # "gen_upsert" =>
         /\ OtherDates(store', utcDate[p]) = OtherDates(store, utcDate[p])
         /\ trace'[p][Len(trace'[p])].ok =>
              findByDate(store', utcDate[p]) =
                upsertSnapshots(findByDate(store, utcDate[p]), utcDate[p],
                                aggregations[p], clock')
  /\ \A row \in (store' \ store) \cup (store \ store') :
       \E p \in Procs :
         /\ pc[p] = "gen_upsert" /\ pc'[p] # "gen_upsert"
         /\ utcDate[p] = row.snapshotDate

\* C29: runForDate(D) creates or modifies rows of date D only; every row of
\* another date is unchanged by it, and what it does to the rows of D does
\* not depend on the rows of other dates, so runs for different dates
\* commute: under every interleaving each run that has returned finds its
\* own aggregation rows stored for its date.
C29_OnlyOwnDate ==
  /\ [][OwnDateStep]_vars
  /\ [](\A p \in Procs :
          pc[p] = "returned" /\ op[p] = "generateForDate" =>
            \A i \in 1 .. Len(aggregations[p]) :
              AggStats(utcDate[p], aggregations[p][i])
                \in {Stats(row) : row \in findByDate(store, utcDate[p])})

C29_Witness ==
  /\ pc[1] = "returned" /\ pc[2] = "returned"
  /\ op[1] = "generateForDate" /\ op[2] = "generateForDate"
  /\ utcDate[1] # utcDate[2]
  /\ \E r1 \in findByDate(store, utcDate[1]), r2 \in findByDate(store, utcDate[2]) :
       /\ r1.assetSymbol = Some("BTC")
       /\ r2.assetSymbol = Some("BTC")
       /\ r1.createdAt > r2.createdAt

\* The UTC days from `from` to `to`, both included; none when from is later.
DaysInRange(from, to) ==
  IF toUtcMidnight(from) <= toUtcMidnight(to)
  THEN (toUtcMidnight(to) - toUtcMidnight(from)) \div TicksPerDay + 1
  ELSE 0

\* A step of backfill: an iteration ends by moving the cursor on by exactly
\* one UTC day, and no other step moves it.
CursorStep ==
  op[1] = "backfill" /\ op'[1] = "backfill" =>
    IF Len(results'[1]) > Len(results[1])
    THEN /\ Len(results'[1]) = Len(results[1]) + 1
         /\ cursor'[1] = cursor[1] + TicksPerDay
         /\ toUtcMidnight(cursor'[1]) = cursor'[1]
    ELSE cursor'[1] = cursor[1]

\* C30: backfill(from, to) terminates for every pair of dates, every
\* generateForDate call returning or throwing: the cursor advances by exactly
\* one UTC day per iteration and never moves back, and the loop ends after at
\* most as many iterations as there are days from `from` to `to`.
C30_BackfillTerminates ==
  /\ (op[1] = "backfill") ~> (pc[1] \in {"returned", "threw"})
  /\ [][CursorStep]_vars
  /\ [](op[1] = "backfill" =>
          /\ Len(CallsOf(trace[1], "aggregateForDate"))
               <= DaysInRange(args[1].from, args[1].to)
          /\ Len(results[1]) <= DaysInRange(args[1].from, args[1].to)
          /\ cursor[1] = toUtcMidnight(args[1].from) + Len(results[1]) * TicksPerDay
          /\ pc[1] \in {"gen_aggregate", "gen_upsert"} => cursor[1] <= end[1])

C30_Witness ==
  /\ op[1] = "backfill"
  /\ pc[1] = "returned"
  /\ Len(results[1]) = NumDays
  /\ cursor[1] = end[1] + TicksPerDay
  /\ args[1].from % TicksPerDay # 0

====
